---- MODULE Spec2Model ----
(***************************************************************************)
(* Orchestration core of the replicant agent runtime.                      *)
(*                                                                         *)
(*  - the message-loop agent (src/unnamed/part_003): queue, context        *)
(*    window, pause/resume/shutdown, overflow archival;                    *)
(*  - the state-backed agent (src/src/core/Agent.ts): processMessage with  *)
(*    the conversation state kept by the state collaborator;               *)
(*  - the swarm coordinator (src/unnamed/part_005).                        *)
(*                                                                         *)
(* Every `await` of the source is a scheduling point: a handler is cut     *)
(* into one action per synchronous segment and the position between the   *)
(* segments is kept in a pc field.  Collaborator calls (AI, state, memory) *)
(* resolve or reject nondeterministically.                                 *)
(***************************************************************************)
EXTENDS Integers, Sequences, FiniteSets, TLC

\* ------------------------------------------------------------------ bounds
maxContextSize == 100
PreLoad == 100
MaxMessages == 2
MaxLoops == 2
CorePreTurns == 49
WindowPreTurns == 98
MaxTurns == 3
MaxSwarm == 3
MaxSpawn == 4
MaxTasks == 4
MaxCalls == 2
MaxMergeLen == 2
MaxVoters == 2
MaxOptions == 2
MaxDen == 3
MaxLinks == 2
MaxHour == 1
MaxTicks == 1
MaxStarts == 2
MaxAssignSwarm == 2
MaxReportTasks == 2
MaxPriority == 2
MaxReports == 4
MaxSaves == 3

\* checkTasks asks the goal provider for at most 5 tasks
TaskCheckCount == 5

\* ------------------------------------------------------------- array helpers
\* Array.prototype.slice(-n)
SliceLast(s, n) ==
    IF Len(s) <= n THEN s ELSE SubSeq(s, Len(s) - n + 1, Len(s))

\* Array.prototype.slice(0, k)
SliceFirst(s, k) ==
    SubSeq(s, 1, k)

Range(s) ==
    {s[i] : i \in 1..Len(s)}

VARIABLES
    \* ---- message-loop agent (part_003) ----
    aiProvider,        \* an AI provider has been set
    stateProvider,     \* a state provider has been set
    memoryProvider,    \* a memory provider has been set
    errorListener,     \* an 'error' listener is registered on the emitter
    isRunning,
    messageQueue,
    contextWindow,
    loops,             \* the startMessageLoop() invocations that are alive
    stored,            \* what the state provider holds for config.userId
    memories,          \* records the memory provider has stored
    aiLog,             \* messages handed to aiProvider.processMessage, in call order
    errorEvents,       \* messages whose processing was delivered as an 'error' event
    messageEvents,     \* messages whose response was emitted as a 'message' event
    aiFailed,          \* messages whose aiProvider.processMessage call rejected
    enqueued,          \* number of queueMessage calls so far
    lifecycle,         \* idle / running / paused / stopped
    turnBase,          \* turnCount loaded by initialize minus the messages dequeued by then
    lastCall           \* what the last pause()/shutdown() call did

loopVars ==
    <<aiProvider, stateProvider, memoryProvider, errorListener, isRunning,
      messageQueue, contextWindow, loops, stored, memories, aiLog, errorEvents,
      messageEvents, aiFailed, enqueued, lifecycle, turnBase, lastCall>>

\* ------------------------------------------------------------- loop agent
Null ==
    [turnCount |-> -1, contextWindow |-> <<>>]

NoLoop ==
    [pc |-> "none", message |-> 0, oldMessages |-> <<>>]

Waiting ==
    [pc |-> "wait", message |-> 0, oldMessages |-> <<>>]

NoCall ==
    [op |-> "none", wasStopped |-> FALSE, saved |-> FALSE, released |-> FALSE,
     dequeued |-> 0, quiet |-> TRUE]

\* a state persisted by an earlier session of this agent: a window of PreLoad
\* entries (never more than maxContextSize) and the turnCount saved with it
Persisted ==
    LET n == IF PreLoad > maxContextSize THEN maxContextSize ELSE PreLoad
    IN [turnCount |-> n, contextWindow |-> [i \in 1..n |-> i]]

NotLoaded ==
    Null.turnCount

\* the id of the k-th queued message; the ids 1..PreLoad are the entries of a
\* window persisted by an earlier session
MessageId(k) ==
    PreLoad + k

Dequeued ==
    enqueued - Len(messageQueue)

\* no loop is inside processMessage (between the shift and the end of the iteration)
Quiet ==
    \A l \in 1..MaxLoops : loops[l].pc \in {"none", "wait", "dead"}

\* the mutable fields an iteration touches, as one record
Cur ==
    [queue |-> messageQueue, window |-> contextWindow, loops |-> loops,
     memories |-> memories, aiLog |-> aiLog, errorEvents |-> errorEvents,
     messageEvents |-> messageEvents, aiFailed |-> aiFailed]

Commit(s) ==
    /\ messageQueue' = s.queue
    /\ contextWindow' = s.window
    /\ loops' = s.loops
    /\ memories' = s.memories
    /\ aiLog' = s.aiLog
    /\ errorEvents' = s.errorEvents
    /\ messageEvents' = s.messageEvents
    /\ aiFailed' = s.aiFailed

\* this.emit('error', e) on an EventEmitter: with a listener the event is
\* delivered and emit returns; with none, emit throws e.
EmitError(s, l, m) ==
    IF errorListener
    THEN [s EXCEPT !.errorEvents = @ \cup {m}, !.loops[l] = Waiting]
    ELSE [s EXCEPT !.loops[l] = [pc |-> "dead", message |-> m, oldMessages |-> <<>>]]

\* catch (error) { this.emit('error', ...) } followed by the 100 ms sleep; when
\* emit throws, the async function rejects and this loop is gone.
Caught(s, l, m) ==
    EmitError(s, l, m)

\* return this.aiProvider.processMessage(message, context)
InvokeAI(s, l, m) ==
    [s EXCEPT !.aiLog = Append(@, m),
              !.loops[l] = [pc |-> "ai", message |-> m, oldMessages |-> <<>>]]

\* "Build context with relevant memories": await searchMemories when a memory
\* provider is set, else straight on to the AI call
BuildContext(s, l, m) ==
    IF memoryProvider
    THEN [s EXCEPT !.loops[l] = [pc |-> "search", message |-> m, oldMessages |-> <<>>]]
    ELSE InvokeAI(s, l, m)

\* processMessage up to its first await
ProcessMessageStart(s, l, m) ==
    IF ~aiProvider
    THEN Caught(s, l, m)
    ELSE LET w == Append(s.window, m) IN
         IF Len(w) > maxContextSize
         THEN IF memoryProvider
              THEN [s EXCEPT !.window = w,
                             !.loops[l] = [pc |-> "store", message |-> m,
                                           oldMessages |-> SliceFirst(w, Len(w) - maxContextSize)]]
              ELSE BuildContext([s EXCEPT !.window = SliceLast(w, maxContextSize)], l, m)
         ELSE BuildContext([s EXCEPT !.window = w], l, m)

\* one pass of the while body, isRunning having been found true
Iterate(s, l) ==
    IF Len(s.queue) > 0
    THEN ProcessMessageStart([s EXCEPT !.queue = Tail(@)], l, Head(s.queue))
    ELSE [s EXCEPT !.loops[l] = Waiting]

FreeSlots ==
    {l \in 1..MaxLoops : loops[l].pc = "none"}

FirstFree ==
    CHOOSE l \in FreeSlots : \A k \in FreeSlots : l <= k

\* the state object pause() and shutdown() build
StateData ==
    [turnCount |-> Len(contextWindow), contextWindow |-> contextWindow]

\* initialize(): returns at once when running; loads the persisted window;
\* sets isRunning and starts the loop (startTaskLoop returns at its first line
\* when no goal provider is set).  The caller initializes a fresh agent once.
Initialize ==
    /\ lifecycle = "idle"
    /\ ~isRunning
    /\ FreeSlots # {}
    /\ LET load == stateProvider /\ stored # Null
           win == IF load THEN stored.contextWindow ELSE contextWindow
       IN /\ Commit(Iterate([Cur EXCEPT !.window = win], FirstFree))
          /\ turnBase' = IF load THEN stored.turnCount - Dequeued ELSE turnBase
    /\ isRunning' = TRUE
    /\ lifecycle' = "running"
    /\ UNCHANGED <<aiProvider, stateProvider, memoryProvider, errorListener,
                   stored, enqueued, lastCall>>

\* queueMessage(message)
QueueMessage ==
    /\ enqueued < MaxMessages
    /\ messageQueue' = Append(messageQueue, MessageId(enqueued + 1))
    /\ enqueued' = enqueued + 1
    /\ UNCHANGED <<aiProvider, stateProvider, memoryProvider, errorListener,
                   isRunning, contextWindow, loops, stored, memories, aiLog,
                   errorEvents, messageEvents, aiFailed, lifecycle, turnBase, lastCall>>

\* pause(): clears isRunning and saves the state; providers stay up
Pause ==
    /\ lifecycle # "idle"
    /\ isRunning' = FALSE
    /\ lifecycle' = IF lifecycle = "running" THEN "paused" ELSE lifecycle
    /\ \E ok \in BOOLEAN :
          /\ stored' = IF stateProvider /\ ok THEN StateData ELSE stored
          /\ lastCall' = [op |-> "pause", wasStopped |-> FALSE,
                          saved |-> stateProvider /\ ok, released |-> FALSE,
                          dequeued |-> Dequeued, quiet |-> Quiet]
    /\ UNCHANGED <<aiProvider, stateProvider, memoryProvider, errorListener,
                   messageQueue, contextWindow, loops, memories, aiLog,
                   errorEvents, messageEvents, aiFailed, enqueued, turnBase>>

\* resume(): when not running, sets isRunning and starts a message loop
Resume ==
    /\ lifecycle # "idle"
    /\ ~isRunning
    /\ FreeSlots # {}
    /\ isRunning' = TRUE
    /\ lifecycle' = "running"
    /\ Commit(Iterate(Cur, FirstFree))
    /\ UNCHANGED <<aiProvider, stateProvider, memoryProvider, errorListener,
                   stored, enqueued, turnBase, lastCall>>

\* shutdown(): clears isRunning, saves the state, then shuts the providers down
\* (a rejected saveState ends the call before any provider is shut down: the
\* loop is stopped and the collaborators are still up, as after pause)
ShutdownBody ==
    /\ isRunning' = FALSE
    /\ \E ok \in BOOLEAN :
          /\ lifecycle' = IF ok \/ ~stateProvider THEN "stopped"
                          ELSE IF lifecycle = "running" THEN "paused" ELSE lifecycle
          /\ stored' = IF stateProvider /\ ok THEN StateData ELSE stored
          /\ lastCall' = [op |-> "shutdown", wasStopped |-> lifecycle = "stopped",
                          saved |-> stateProvider /\ ok,
                          released |-> (ok \/ ~stateProvider)
                                       /\ (aiProvider \/ stateProvider \/ memoryProvider),
                          dequeued |-> Dequeued, quiet |-> Quiet]

Shutdown ==
    /\ lifecycle # "idle"
    /\ ShutdownBody
    /\ UNCHANGED <<aiProvider, stateProvider, memoryProvider, errorListener,
                   messageQueue, contextWindow, loops, memories, aiLog,
                   errorEvents, messageEvents, aiFailed, enqueued, turnBase>>

Frame ==
    UNCHANGED <<aiProvider, stateProvider, memoryProvider, errorListener,
                isRunning, stored, enqueued, lifecycle, turnBase, lastCall>>

\* the 100 ms timer fires: the while condition is tested again
LoopWake(l) ==
    /\ loops[l].pc = "wait"
    /\ IF isRunning
       THEN Commit(Iterate(Cur, l))
       ELSE Commit([Cur EXCEPT !.loops[l] = NoLoop])
    /\ Frame

\* the overflow storeMemory call settles
StoreDone(l) ==
    /\ loops[l].pc = "store"
    /\ LET m == loops[l].message
           rec == [type |-> "context_history", content |-> loops[l].oldMessages]
       IN \E ok \in BOOLEAN :
            IF ok
            THEN Commit(BuildContext([Cur EXCEPT !.memories = Append(@, rec),
                                                 !.window = SliceLast(@, maxContextSize)],
                                     l, m))
            ELSE Commit(Caught(Cur, l, m))
    /\ Frame

\* the searchMemories call settles
SearchDone(l) ==
    /\ loops[l].pc = "search"
    /\ \E ok \in BOOLEAN :
         IF ok
         THEN Commit(InvokeAI(Cur, l, loops[l].message))
         ELSE Commit(Caught(Cur, l, loops[l].message))
    /\ Frame

\* the AI call settles: 'message' is emitted and a significant interaction is
\* stored, or the failure is caught
AIDone(l) ==
    /\ loops[l].pc = "ai"
    /\ LET m == loops[l].message IN
       \E ok \in BOOLEAN, significant \in BOOLEAN :
         IF ok
         THEN LET s == [Cur EXCEPT !.messageEvents = @ \cup {m}] IN
              IF memoryProvider /\ significant
              THEN Commit([s EXCEPT !.loops[l] = [pc |-> "sig", message |-> m,
                                                  oldMessages |-> <<>>]])
              ELSE Commit([s EXCEPT !.loops[l] = Waiting])
         ELSE Commit(Caught([Cur EXCEPT !.aiFailed = @ \cup {m}], l, m))
    /\ Frame

\* the storeMemory call of a significant interaction settles
SigDone(l) ==
    /\ loops[l].pc = "sig"
    /\ LET m == loops[l].message
           rec == [type |-> "interaction", content |-> <<m>>]
       IN \E ok \in BOOLEAN :
            IF ok
            THEN Commit([Cur EXCEPT !.memories = Append(@, rec), !.loops[l] = Waiting])
            ELSE Commit(Caught(Cur, l, m))
    /\ Frame

\* =========================================================================
\* State-backed agent: src/src/core/Agent.ts
\* =========================================================================
VARIABLES
    coreAi,        \* setAIProvider was called
    coreState,     \* setStateProvider was called
    coreRunning,   \* Agent.isRunning
    coreStored,    \* the conversation state the state provider holds for the domain
    coreCalls,     \* number of processMessage calls made so far
    coreLast,      \* what the last call did and how it ended
    coreBase       \* number of turns the stored conversation had before the first call

coreVars ==
    <<coreAi, coreState, coreRunning, coreStored, coreCalls, coreLast, coreBase>>

CoreNoCall ==
    [op |-> "none", result |-> "none", wasRunning |-> FALSE, loadFailed |-> FALSE,
     saveFailed |-> FALSE, aiFailed |-> FALSE, released |-> FALSE]

\* the entries of the k-th turn: the inbound message and the AI response
CoreMessage(k) ==
    2 * k - 1

CoreResponse(k) ==
    2 * k

\* the state this agent leaves behind after t turns
CorePersisted(t) ==
    [turnCount |-> t,
     contextWindow |-> SliceLast([i \in 1..(2 * t) |-> i], maxContextSize)]

\* const newState = { turnCount: 0, variables: { contextWindow: [] }, ... }
NewState ==
    [turnCount |-> 0, contextWindow |-> <<>>]

\* the turns the conversation may have had before the first call: none, one short
\* of the first truncation, and two short of the hundredth message
WindowBases ==
    {0, CorePreTurns, WindowPreTurns}

\* updateContextWindow truncating to the whole limit before it appends
UpdatedStateNoRoom(state, message, response) ==
    LET kept == IF Len(state.contextWindow) >= maxContextSize
                THEN SliceLast(state.contextWindow, maxContextSize)
                ELSE state.contextWindow
    IN [turnCount |-> state.turnCount + 1,
        contextWindow |-> Append(Append(kept, message), response)]

\* updateContextWindow, from the loaded state to the state handed to saveState
UpdatedState(state, message, response) ==
    LET kept == IF Len(state.contextWindow) >= 98
                THEN SliceLast(state.contextWindow, 98)
                ELSE state.contextWindow
    IN [turnCount |-> state.turnCount + 1,
        contextWindow |-> Append(Append(kept, message), response)]

\* initialize(): both collaborators are required
CoreInitialize ==
    /\ coreLast' = [CoreNoCall EXCEPT !.op = "initialize",
                      !.result = IF coreState /\ coreAi THEN "returned" ELSE "threw",
                      !.wasRunning = coreRunning]
    /\ coreRunning' = IF coreState /\ coreAi THEN TRUE ELSE coreRunning
    /\ UNCHANGED <<coreAi, coreState, coreStored, coreCalls, coreBase>>

\* shutdown(): returns at once when not running
CoreShutdown ==
    /\ coreLast' = [CoreNoCall EXCEPT !.op = "shutdown", !.result = "returned",
                      !.wasRunning = coreRunning, !.released = coreRunning]
    /\ coreRunning' = FALSE
    /\ UNCHANGED <<coreAi, coreState, coreStored, coreCalls, coreBase>>

\* processMessage(message), the caller awaiting each call before the next; every
\* collaborator call of the handler resolves (TRUE) or rejects (FALSE)
CoreProcessMessage(load1, save1, ai, load2, save2) ==
    LET k == coreCalls + 1
        message == CoreMessage(coreBase + k)
        response == CoreResponse(coreBase + k)
        last == [CoreNoCall EXCEPT !.op = "process", !.wasRunning = coreRunning]
        \* the state after the "Initialize new state" block
        created == IF coreStored = Null THEN NewState ELSE coreStored
        \* updateContextWindow: every failure inside is logged and swallowed
        updated == IF load2 /\ save2
                   THEN UpdatedState(created, message, response)
                   ELSE created
    IN /\ coreCalls' = k
       /\ IF ~coreRunning \/ ~coreState \/ ~coreAi
          THEN /\ coreLast' = [last EXCEPT !.result = "threw"]
               /\ UNCHANGED coreStored
          ELSE IF ~load1
          THEN /\ coreLast' = [last EXCEPT !.result = "threw", !.loadFailed = TRUE]
               /\ UNCHANGED coreStored
          ELSE IF coreStored = Null /\ ~save1
          THEN /\ coreLast' = [last EXCEPT !.result = "threw", !.saveFailed = TRUE]
               /\ UNCHANGED coreStored
          ELSE IF ~ai
          THEN /\ coreLast' = [last EXCEPT !.result = "threw", !.aiFailed = TRUE]
               /\ coreStored' = created
          ELSE /\ coreLast' = [last EXCEPT !.result = "returned",
                                  !.loadFailed = ~load2,
                                  !.saveFailed = load2 /\ ~save2]
               /\ coreStored' = updated
       /\ UNCHANGED <<coreAi, coreState, coreRunning, coreBase>>

CoreProcess ==
    /\ coreCalls < MaxTurns
    /\ \E load1 \in BOOLEAN, save1 \in BOOLEAN, ai \in BOOLEAN,
          load2 \in BOOLEAN, save2 \in BOOLEAN :
          CoreProcessMessage(load1, save1, ai, load2, save2)

CoreInit ==
    /\ coreAi \in BOOLEAN
    /\ coreState \in BOOLEAN
    /\ coreRunning = FALSE
    /\ coreStored \in {Null, CorePersisted(CorePreTurns)}
    /\ coreCalls = 0
    /\ coreLast = CoreNoCall
    /\ coreBase = CorePreTurns

\* an agent whose conversation state exists: the state b earlier turns left behind
WindowInit ==
    /\ coreAi \in BOOLEAN
    /\ coreState \in BOOLEAN
    /\ coreRunning = FALSE
    /\ coreBase \in WindowBases
    /\ coreStored = CorePersisted(coreBase)
    /\ coreCalls = 0
    /\ coreLast = CoreNoCall

CoreIdle ==
    /\ coreAi = FALSE
    /\ coreState = FALSE
    /\ coreRunning = FALSE
    /\ coreStored = Null
    /\ coreCalls = 0
    /\ coreLast = CoreNoCall
    /\ coreBase = CorePreTurns

\* =========================================================================
\* Swarm coordinator: src/unnamed/part_005 (BaseSwarmProvider)
\* =========================================================================
VARIABLES
    swConfig,          \* SwarmConfig: minAgents, maxAgents
    agents,            \* keys of the agents Map, in insertion order
    taskAssignments,   \* agent id -> set of task ids (no entry = empty set)
    metrics,           \* the SwarmMetrics object updateMetrics keeps
    nextAgentId,       \* number of agent ids generated so far
    swarmPhase,        \* new / initializing / ready / stopping / down
    calls,             \* the provider calls that are suspended at an await
    swLast             \* how the last finished spawnAgent/mergeAgents/distributeTask call ended

swarmVars ==
    <<swConfig, agents, taskAssignments, metrics, nextAgentId, swarmPhase, calls, swLast>>

AgentIds ==
    1..MaxSpawn

TaskIds ==
    1..MaxTasks

NoSwCall ==
    [op |-> "none", pc |-> "none", newId |-> 0, ids |-> <<>>, idx |-> 0,
     task |-> 0, before |-> <<>>]

NoSwResult ==
    [op |-> "none", outcome |-> "none", before |-> <<>>, after |-> <<>>, id |-> 0]

RECURSIVE SumAssigned(_, _)
SumAssigned(asg, n) ==
    IF n = 0 THEN 0 ELSE Cardinality(asg[n]) + SumAssigned(asg, n - 1)

\* the square root rounded down instead of up
FloorSqrt(n) ==
    CHOOSE k \in 0..n : k * k <= n /\ (k + 1) * (k + 1) > n

\* Math.ceil(Math.sqrt(n))
CeilSqrt(n) ==
    CHOOSE k \in 0..n : k * k >= n /\ (k = 0 \/ (k - 1) * (k - 1) < n)

\* updateMetrics(): agentCount, taskDistribution and resourceUtilization (kept
\* as the pair currentTasks / totalPossibleTasks)
UpdateMetrics(ags, asg) ==
    [agentCount |-> Len(ags),
     taskDistribution |-> [t \in TaskIds |-> Cardinality({a \in AgentIds : t \in asg[a]})],
     currentTasks |-> SumAssigned(asg, MaxSpawn),
     totalPossibleTasks |-> Len(ags) * 3]

\* the capacity test with > in the place of >=: one agent too many gets in
CapacityReachedStrict(ags) ==
    Len(ags) > swConfig.maxAgents

\* if (this.agents.size >= this.config.maxAgents) throw
CapacityReached(ags) ==
    Len(ags) >= swConfig.maxAgents

\* if (this.agents.size - agentIds.length + 1 < this.config.minAgents) throw
MergeTooFew(ags, ids) ==
    Len(ags) - Len(ids) + 1 < swConfig.minAgents

Without(ags, id) ==
    LET Keep(a) == a # id IN SelectSeq(ags, Keep)

\* the filter of distributeTask with <= in the place of <: a full agent is a candidate
AvailableAgentsLoose(ags, asg) ==
    LET HasRoom(a) == Cardinality(asg[a]) <= 3 IN SelectSeq(ags, HasRoom)

\* agents with fewer than 3 assigned tasks, in Map order
AvailableAgents(ags, asg) ==
    LET HasRoom(a) == Cardinality(asg[a]) < 3 IN SelectSeq(ags, HasRoom)

FreeCalls ==
    {c \in 1..MaxCalls : calls[c].op = "none"}

FreeCall ==
    CHOOSE c \in FreeCalls : \A d \in FreeCalls : c <= d

NoCallInFlight ==
    \A c \in 1..MaxCalls : calls[c].op = "none"

\* spawnAgent up to `await agent.initialize()`, on behalf of operation op
SuspendInSpawn(op, ids, task) ==
    /\ nextAgentId < MaxSpawn
    /\ FreeCalls # {}
    /\ nextAgentId' = nextAgentId + 1
    /\ calls' = [calls EXCEPT ![FreeCall] =
                    [op |-> op, pc |-> "init", newId |-> nextAgentId + 1, ids |-> ids,
                     idx |-> 0, task |-> task, before |-> agents]]

Finished(op, outcome, before, after, id) ==
    swLast' = [op |-> op, outcome |-> outcome, before |-> before, after |-> after, id |-> id]

\* initialize(config): spawns minAgents agents, one after the other
SwarmInitialize ==
    /\ swarmPhase = "new"
    /\ IF swConfig.minAgents = 0
       THEN /\ swarmPhase' = "ready"
            /\ UNCHANGED <<nextAgentId, calls>>
       ELSE /\ swarmPhase' = "initializing"
            /\ SuspendInSpawn("initialize", <<>>, 0)
    /\ UNCHANGED <<swConfig, agents, taskAssignments, metrics, swLast>>

\* spawnAgent(specialization), called by the application
SpawnCall ==
    /\ swarmPhase = "ready"
    /\ IF CapacityReached(agents)
       THEN /\ Finished("spawn", "CapacityExceeded", agents, agents, 0)
            /\ UNCHANGED <<nextAgentId, calls>>
       ELSE /\ SuspendInSpawn("spawn", <<>>, 0)
            /\ UNCHANGED swLast
    /\ UNCHANGED <<swConfig, agents, taskAssignments, metrics, swarmPhase>>

\* agent.initialize() resolved: the rest of spawnAgent (agents.set, updateMetrics,
\* return agentId); a call that awaited spawnAgent continues in a later step
AgentInitialized(c) ==
    /\ calls[c].pc = "init"
    /\ agents' = Append(agents, calls[c].newId)
    /\ metrics' = UpdateMetrics(agents', taskAssignments)
    /\ IF calls[c].op = "spawn"
       THEN /\ calls' = [calls EXCEPT ![c] = NoSwCall]
            /\ Finished("spawn", "ok", calls[c].before, agents', calls[c].newId)
       ELSE /\ calls' = [calls EXCEPT ![c].pc = "spawned"]
            /\ UNCHANGED swLast
    /\ UNCHANGED <<swConfig, taskAssignments, nextAgentId, swarmPhase>>

\* initialize: the loop over i after a spawnAgent returned
InitializeContinue(c) ==
    /\ calls[c].op = "initialize"
    /\ calls[c].pc = "spawned"
    /\ LET i == calls[c].idx + 1 IN
       IF i < swConfig.minAgents /\ ~CapacityReached(agents)
       THEN /\ nextAgentId < MaxSpawn
            /\ nextAgentId' = nextAgentId + 1
            /\ calls' = [calls EXCEPT ![c] = [@ EXCEPT !.pc = "init", !.idx = i,
                                                        !.newId = nextAgentId + 1]]
            /\ UNCHANGED swarmPhase
       ELSE \* the loop is over, or spawnAgent threw: initialize ends
            /\ calls' = [calls EXCEPT ![c] = NoSwCall]
            /\ swarmPhase' = IF i < swConfig.minAgents THEN "failed" ELSE "ready"
            /\ UNCHANGED nextAgentId
    /\ UNCHANGED <<swConfig, agents, taskAssignments, metrics, swLast>>

\* mergeAgents(agentIds)
MergeCall(ids) ==
    /\ swarmPhase = "ready"
    /\ IF Len(ids) < 2
       THEN /\ Finished("merge", "noop", agents, agents, 0)
            /\ UNCHANGED <<nextAgentId, calls>>
       ELSE IF MergeTooFew(agents, ids)
       THEN /\ Finished("merge", "InvariantViolation", agents, agents, 0)
            /\ UNCHANGED <<nextAgentId, calls>>
       ELSE IF CapacityReached(agents)
       THEN /\ Finished("merge", "CapacityExceeded", agents, agents, 0)
            /\ UNCHANGED <<nextAgentId, calls>>
       ELSE /\ SuspendInSpawn("merge", ids, 0)
            /\ UNCHANGED swLast
    /\ UNCHANGED <<swConfig, agents, taskAssignments, metrics, swarmPhase>>

\* mergeAgents after an await: the loop "for (const agentId of agentIds)";
\* resuming from agent.shutdown() deletes that agent first
MergeContinue(c) ==
    /\ calls[c].op = "merge"
    /\ calls[c].pc \in {"spawned", "shutdown"}
    /\ LET ids == calls[c].ids
           ags == IF calls[c].pc = "shutdown"
                  THEN Without(agents, ids[calls[c].idx])
                  ELSE agents
           rest == {j \in (calls[c].idx + 1)..Len(ids) : ids[j] \in Range(ags)}
       IN /\ agents' = ags
          /\ IF rest # {}
             THEN /\ calls' = [calls EXCEPT ![c] =
                                 [@ EXCEPT !.pc = "shutdown",
                                           !.idx = CHOOSE j \in rest : \A k \in rest : j <= k]]
                  /\ UNCHANGED <<metrics, swLast>>
             ELSE /\ calls' = [calls EXCEPT ![c] = NoSwCall]
                  /\ metrics' = UpdateMetrics(ags, taskAssignments)
                  /\ Finished("merge", "ok", calls[c].before, ags, calls[c].newId)
    /\ UNCHANGED <<swConfig, taskAssignments, nextAgentId, swarmPhase>>

\* the assignment loop and updateMetrics at the end of distributeTask
Assign(available, task) ==
    LET assigned == SubSeq(available, 1, CeilSqrt(Len(available)))
    IN /\ taskAssignments' = [a \in AgentIds |->
                                IF a \in Range(assigned)
                                THEN taskAssignments[a] \cup {task}
                                ELSE taskAssignments[a]]
       /\ metrics' = UpdateMetrics(agents, taskAssignments')

\* distributeTask(task)
DistributeCall(task) ==
    /\ swarmPhase = "ready"
    /\ LET available == AvailableAgents(agents, taskAssignments) IN
       IF Len(available) = 0
       THEN IF Len(agents) < swConfig.maxAgents
            THEN /\ SuspendInSpawn("distribute", <<>>, task)
                 /\ UNCHANGED <<taskAssignments, metrics, swLast>>
            ELSE /\ Finished("distribute", "NoCapacity", agents, agents, 0)
                 /\ UNCHANGED <<taskAssignments, metrics, nextAgentId, calls>>
       ELSE /\ Assign(available, task)
            /\ Finished("distribute", "ok", agents, agents, 0)
            /\ UNCHANGED <<nextAgentId, calls>>
    /\ UNCHANGED <<swConfig, agents, swarmPhase>>

\* distributeTask after `await this.spawnAgent(...)`: availableAgents (empty when
\* it was computed) gets the new id pushed
DistributeContinue(c) ==
    /\ calls[c].op = "distribute"
    /\ calls[c].pc = "spawned"
    /\ Assign(<<calls[c].newId>>, calls[c].task)
    /\ calls' = [calls EXCEPT ![c] = NoSwCall]
    /\ Finished("distribute", "ok", calls[c].before, agents, calls[c].newId)
    /\ UNCHANGED <<swConfig, agents, nextAgentId, swarmPhase>>

VARIABLES
    reportCall,        \* the arguments of the last reportTaskProgress call
    consensusRate      \* metrics.consensusRate, as updateMetrics left it (one topic: 0 or 1)

assignVars ==
    <<reportCall, consensusRate>>

NoReportCall ==
    [agent |-> 0, task |-> 0, progress |-> 0]

AssignIdle ==
    /\ reportCall = NoReportCall
    /\ consensusRate = 0

\* the agentIds arrays handed to mergeAgents here: the oldest and the newest
\* agent of the swarm (the same id twice in a swarm of one)
OldestAndNewest ==
    IF Len(agents) >= 1 THEN {<<agents[1], agents[Len(agents)]>>} ELSE {}

\* a swarm provider before initialize(config)
SwarmFresh ==
    /\ agents = <<>>
    /\ taskAssignments = [a \in AgentIds |-> {}]
    /\ metrics = [agentCount |-> 0, taskDistribution |-> [t \in TaskIds |-> 0],
                  currentTasks |-> 0, totalPossibleTasks |-> 0]
    /\ nextAgentId = 0
    /\ swarmPhase = "new"
    /\ calls = [c \in 1..MaxCalls |-> NoSwCall]
    /\ swLast = NoSwResult
    /\ reportCall = NoReportCall
    /\ consensusRate = 0

\* the configurations of the assignment runs: minAgents 0 or 1, maxAgents fixed
AssignInit ==
    /\ swConfig \in {[minAgents |-> lo, maxAgents |-> MaxAssignSwarm] : lo \in 0..1}
    /\ SwarmFresh

\* the configuration of the report runs: a swarm that starts at its maximum
ReportInit ==
    /\ swConfig = [minAgents |-> MaxAssignSwarm, maxAgents |-> MaxAssignSwarm]
    /\ SwarmFresh

\* the task ids distributed in the report runs
ReportTasks ==
    1..MaxReportTasks

\* reportTaskProgress where a finished task leaves the set of every assignee
ReportTaskProgressAll(agentId, taskId, progress) ==
    /\ swarmPhase = "ready"
    /\ LET tasks == taskAssignments[agentId]
       IN IF taskId \notin tasks
          THEN /\ Finished("report", "NotFound", agents, agents, 0)
               /\ UNCHANGED <<taskAssignments, metrics>>
          ELSE /\ taskAssignments' =
                     IF progress >= 100
                     THEN [a \in AgentIds |-> taskAssignments[a] \ {taskId}]
                     ELSE taskAssignments
               /\ metrics' = UpdateMetrics(agents, taskAssignments')
               /\ Finished("report", "ok", agents, agents, 0)
    /\ UNCHANGED <<swConfig, agents, nextAgentId, swarmPhase, calls>>

\* reportTaskProgress(agentId, taskId, progress)
ReportTaskProgress(agentId, taskId, progress) ==
    /\ swarmPhase = "ready"
    /\ LET tasks == taskAssignments[agentId]
       IN IF taskId \notin tasks
          THEN /\ Finished("report", "NotFound", agents, agents, 0)
               /\ UNCHANGED <<taskAssignments, metrics>>
          ELSE /\ taskAssignments' =
                     IF progress >= 100
                     THEN [taskAssignments EXCEPT ![agentId] = tasks \ {taskId}]
                     ELSE taskAssignments
               /\ metrics' = UpdateMetrics(agents, taskAssignments')
               /\ Finished("report", "ok", agents, agents, 0)
    /\ UNCHANGED <<swConfig, agents, nextAgentId, swarmPhase, calls>>

\* "return currentTasks < 3; // Max 3 tasks per agent"
AgentTaskLimit == 3

\* the task ids handed to the swarm: one more than an agent can hold
AssignTasks ==
    1..(AgentTaskLimit + 1)

\* a reportTaskProgress call, with its arguments recorded
ReportTaskProgressCall(agentId, taskId, progress) ==
    /\ ReportTaskProgress(agentId, taskId, progress)
    /\ reportCall' = [agent |-> agentId, task |-> taskId, progress |-> progress]

\* the progress values reported: below and at completion
ProgressInputs ==
    {50, 100}

\* shutdown(): every agent is shut down (awaited one by one), then the maps are cleared
SwarmShutdownBegin ==
    /\ swarmPhase = "ready"
    /\ swarmPhase' = "stopping"
    /\ UNCHANGED <<swConfig, agents, taskAssignments, metrics, nextAgentId, calls, swLast>>

SwarmShutdownEnd ==
    /\ swarmPhase = "stopping"
    /\ swarmPhase' = "down"
    /\ agents' = <<>>
    /\ taskAssignments' = [a \in AgentIds |-> {}]
    /\ UNCHANGED <<swConfig, metrics, nextAgentId, calls, swLast>>

\* the task handed to distributeTask: every call brings a task with a new id
TaskInputs ==
    {t \in TaskIds : /\ \A u \in 1..(t - 1) : \E a \in AgentIds : u \in taskAssignments[a]
                     /\ \A a \in AgentIds : t \notin taskAssignments[a]}

\* the agentIds arrays handed to mergeAgents: ids generated so far, repeats allowed
MergeInputs ==
    UNION {[1..n -> 1..nextAgentId] : n \in 0..MaxMergeLen}

SwarmInit ==
    /\ swConfig \in {[minAgents |-> lo, maxAgents |-> hi] :
                        lo \in 1..MaxSwarm, hi \in 1..MaxSwarm}
    /\ swConfig.minAgents <= swConfig.maxAgents
    /\ agents = <<>>
    /\ taskAssignments = [a \in AgentIds |-> {}]
    /\ metrics = [agentCount |-> 0, taskDistribution |-> [t \in TaskIds |-> 0],
                  currentTasks |-> 0, totalPossibleTasks |-> 0]
    /\ nextAgentId = 0
    /\ swarmPhase = "new"
    /\ calls = [c \in 1..MaxCalls |-> NoSwCall]
    /\ swLast = NoSwResult

SwarmIdle ==
    /\ swConfig = [minAgents |-> 1, maxAgents |-> 1]
    /\ agents = <<>>
    /\ taskAssignments = [a \in AgentIds |-> {}]
    /\ metrics = [agentCount |-> 0, taskDistribution |-> [t \in TaskIds |-> 0],
                  currentTasks |-> 0, totalPossibleTasks |-> 0]
    /\ nextAgentId = 0
    /\ swarmPhase = "new"
    /\ calls = [c \in 1..MaxCalls |-> NoSwCall]
    /\ swLast = NoSwResult

\* =========================================================================
\* Swarm decisions: src/unnamed/part_005 (proposeDecision, submitVote,
\* getConsensus, updateDecisionConfidence)
\* =========================================================================
VARIABLES
    swThreshold,       \* SwarmConfig.consensusThreshold, as the fraction <<num, den>>
    decision,          \* the entry of the decisions Map for the topic (or NoDecision)
    voteLast,          \* how the last proposeDecision/submitVote/getConsensus call ended
    voteCall           \* the arguments of the last submitVote call and the vote the
                       \* agent had on the ballot when it was made

voteVars ==
    <<swThreshold, decision, voteLast, voteCall>>

\* the agentIds handed to mergeAgents here: the two oldest active agents
OldestPair ==
    IF Len(agents) >= 2 THEN {SubSeq(agents, 1, 2)} ELSE {}

\* the agent ids that cast votes
VoterIds ==
    1..MaxVoters

VoteOptions ==
    1..MaxOptions

\* no entry in the decisions Map; a stored decision has proposed = TRUE
NoDecision ==
    [proposed |-> FALSE, options |-> {}, votes |-> [a \in VoterIds |-> 0],
     confidence |-> <<0, 1>>]

NoVoteResult ==
    [op |-> "none", outcome |-> "none"]

\* no submitVote call was made yet
NoVoteCall ==
    [agent |-> 0, vote |-> 0, prior |-> 0]

\* Object.keys(decision.votes): the agent ids with a vote recorded
Voters(d) ==
    {a \in VoterIds : d.votes[a] # 0}

\* the distribution built by updateDecisionConfidence: votes per option
Distribution(d) ==
    [o \in VoteOptions |-> Cardinality({a \in VoterIds : d.votes[a] = o})]

\* Math.max(...Object.values(distribution))
MaxVotes(d) ==
    LET distribution == Distribution(d)
    IN CHOOSE n \in 0..MaxVoters :
          /\ \E o \in VoteOptions : distribution[o] = n
          /\ \A o \in VoteOptions : distribution[o] <= n

\* the confidence taken over the agents of the swarm instead of the votes cast
ConfidenceOverAgents(d) ==
    IF Cardinality(Voters(d)) = 0
    THEN d
    ELSE [d EXCEPT !.confidence = <<MaxVotes(d), Len(agents)>>]

\* updateDecisionConfidence(decision): confidence = maxVotes / totalVotes
UpdateDecisionConfidence(d) ==
    LET totalVotes == Cardinality(Voters(d))
    IN IF totalVotes = 0
       THEN d
       ELSE [d EXCEPT !.confidence = <<MaxVotes(d), totalVotes>>]

\* the test of getConsensus with <= in the place of <: a quorum met exactly is refused
BelowQuorumOrEqual(totalVotes, agentCount) ==
    totalVotes * swThreshold[2] <= agentCount * swThreshold[1]

\* totalVotes < this.agents.size * this.config.consensusThreshold
BelowQuorum(totalVotes, agentCount) ==
    totalVotes * swThreshold[2] < agentCount * swThreshold[1]

\* proposeDecision(topic, options): a new decision replaces what the topic had
ProposeDecision(options) ==
    /\ swarmPhase = "ready"
    /\ decision' = [NoDecision EXCEPT !.proposed = TRUE, !.options = options]
    /\ voteLast' = [NoVoteResult EXCEPT !.op = "propose", !.outcome = "ok"]
    /\ UNCHANGED swThreshold

\* submitVote without the test of the options: any vote is recorded
SubmitVoteUnchecked(agentId, vote) ==
    /\ swarmPhase = "ready"
    /\ LET last == [NoVoteResult EXCEPT !.op = "vote"]
       IN IF ~decision.proposed
          THEN /\ voteLast' = [last EXCEPT !.outcome = "NotFound"]
               /\ UNCHANGED decision
          ELSE /\ decision' = UpdateDecisionConfidence([decision EXCEPT !.votes[agentId] = vote])
               /\ voteLast' = [last EXCEPT !.outcome = "ok"]
    /\ UNCHANGED swThreshold

\* submitVote(agentId, topic, vote, confidence)
SubmitVote(agentId, vote) ==
    /\ swarmPhase = "ready"
    /\ LET last == [NoVoteResult EXCEPT !.op = "vote"]
       IN IF ~decision.proposed
          THEN /\ voteLast' = [last EXCEPT !.outcome = "NotFound"]
               /\ UNCHANGED decision
          ELSE IF vote \notin decision.options
          THEN /\ voteLast' = [last EXCEPT !.outcome = "InvalidVote"]
               /\ UNCHANGED decision
          ELSE /\ decision' = UpdateDecisionConfidence([decision EXCEPT !.votes[agentId] = vote])
               /\ voteLast' = [last EXCEPT !.outcome = "ok"]
    /\ UNCHANGED swThreshold

\* a submitVote call, with its arguments and the caller's earlier vote recorded
SubmitVoteCall(agentId, vote) ==
    /\ SubmitVote(agentId, vote)
    /\ voteCall' = [agent |-> agentId, vote |-> vote, prior |-> decision.votes[agentId]]

\* what getConsensus(topic) returns: the decision, or null
ConsensusOutcome ==
    IF ~decision.proposed THEN "unknown"
    ELSE IF BelowQuorum(Cardinality(Voters(decision)), Len(agents)) THEN "null"
    ELSE "decision"

\* getConsensus(topic)
GetConsensus ==
    /\ swarmPhase = "ready"
    /\ voteLast' = [op |-> "consensus", outcome |-> ConsensusOutcome]
    /\ UNCHANGED <<swThreshold, decision>>

\* updateMetrics: consensusReached / totalDecisions over the decisions Map, 0
\* for an empty Map; with the one topic of the model the rate is 0 or 1
ConsensusRateOf(ags, d) ==
    IF d.proposed /\ ~BelowQuorum(Cardinality(Voters(d)), Len(ags)) THEN 1 ELSE 0

\* the end of spawnAgent with the consensus rate that its updateMetrics() stores
AgentInitializedRated(c) ==
    /\ AgentInitialized(c)
    /\ consensusRate' = ConsensusRateOf(agents', decision)

\* shutdown() also clears the decisions Map
DecisionsCleared ==
    /\ decision' = NoDecision
    /\ UNCHANGED <<swThreshold, voteLast>>

VoteInit ==
    /\ swThreshold \in {<<num, MaxDen>> : num \in 0..MaxDen}
    /\ decision = NoDecision
    /\ voteLast = NoVoteResult
    /\ voteCall = NoVoteCall

VoteIdle ==
    /\ swThreshold = <<1, MaxDen>>
    /\ decision = NoDecision
    /\ voteLast = NoVoteResult
    /\ voteCall = NoVoteCall

\* =========================================================================
\* Team coordination: src/src/core/BaseCoordinationProvider.ts
\* =========================================================================
VARIABLES
    draft,             \* the AgentTeam object the application passes to createTeam
    team,              \* the entry of the teams Map for draft.id (or NoTeam)
    collab,            \* the entry of the collaborations Map for one collaboration id
    handlers,          \* agent ids with a registered message handler
    broadcast,         \* the broadcastMessage call in flight, if any
    teamLast           \* how the last coordination call ended

teamVars ==
    <<draft, team, collab, handlers, broadcast, teamLast>>

TeamAgents ==
    {"L", "M", "R"}

\* no entry in the teams Map; a stored team has stored = TRUE.  members maps an
\* agent id to its status, "none" for an agent that is no member; managers are
\* the keys of hierarchy.reportingChain and reports their lists
NoTeam ==
    [stored |-> FALSE, members |-> [a \in TeamAgents |-> "none"], hierarchy |-> FALSE,
     leaderId |-> "L", managers |-> {}, reports |-> [a \in TeamAgents |-> {}]]

NoCollab ==
    [status |-> "none", participants |-> {}, summary |-> "none"]

\* no broadcastMessage call made.  invoked[a] lists the messages the handler of
\* a was called with by the last call, pending the handlers not yet settled,
\* threw the handlers whose rejection was caught
NoBroadcast ==
    [status |-> "none", message |-> "none", invoked |-> [a \in TeamAgents |-> <<>>],
     pending |-> {}, threw |-> {}]

NoTeamResult ==
    [op |-> "none", outcome |-> "none"]

\* team.members.some(m => m.agentId === agentId)
IsMember(t, agentId) ==
    t.members[agentId] # "none"

MemberIds(t) ==
    {a \in TeamAgents : IsMember(t, a)}

\* the reporting-chain loop of createTeam with the check of the reports left out
ManagersAreMembers(t) ==
    \A managerId \in t.managers : IsMember(t, managerId)

\* the reporting-chain loop of createTeam: every manager and every report is a member
ChainIsValid(t) ==
    \A managerId \in t.managers :
        /\ IsMember(t, managerId)
        /\ \A reportId \in t.reports[managerId] : IsMember(t, reportId)

\* createTeam(team): the checks, in the order of the code
CreateTeamOutcome(t) ==
    IF MemberIds(t) = {} THEN "ValidationError"
    ELSE IF t.hierarchy /\ ~IsMember(t, t.leaderId) THEN "ValidationError"
    ELSE IF t.hierarchy /\ ~ChainIsValid(t) THEN "ValidationError"
    ELSE "ok"

Result(op, outcome) ==
    teamLast' = [op |-> op, outcome |-> outcome]

CreateTeam ==
    /\ Result("createTeam", CreateTeamOutcome(draft))
    /\ team' = IF CreateTeamOutcome(draft) = "ok" THEN [draft EXCEPT !.stored = TRUE] ELSE team
    /\ UNCHANGED <<draft, collab, handlers, broadcast>>

\* addMember(teamId, agentId, role)
AddMember(agentId) ==
    /\ IF ~team.stored
       THEN Result("addMember", "NotFound") /\ UNCHANGED team
       ELSE IF IsMember(team, agentId)
       THEN Result("addMember", "AlreadyMember") /\ UNCHANGED team
       ELSE /\ Result("addMember", "ok")
            /\ team' = [team EXCEPT !.members[agentId] = "active"]
    /\ UNCHANGED <<draft, collab, handlers, broadcast>>

\* endCollaboration(id, summary) on the stored collaboration
Completed(c, summary) ==
    [c EXCEPT !.status = "completed", !.summary = summary]

\* the eviction loop of removeMember without the call of endCollaboration
EvictOnly(c, agentId) ==
    IF c.status = "active" /\ agentId \in c.participants
    THEN [c EXCEPT !.participants = @ \ {agentId}]
    ELSE c

\* the eviction loop of removeMember over the collaborations Map
Evict(c, agentId) ==
    IF c.status = "active" /\ agentId \in c.participants
    THEN IF c.participants \ {agentId} = {}
         THEN Completed([c EXCEPT !.participants = {}], "No active participants")
         ELSE [c EXCEPT !.participants = @ \ {agentId}]
    ELSE c

\* removeMember's checks with the leader check left out
RemoveMemberOutcomeNoLeader(agentId) ==
    IF ~team.stored THEN "NotFound"
    ELSE IF team.hierarchy /\ agentId \in team.managers /\ team.reports[agentId] # {}
    THEN "InvariantViolation"
    ELSE "ok"

\* removeMember(teamId, agentId): the checks made before anything is changed
RemoveMemberOutcome(agentId) ==
    IF ~team.stored THEN "NotFound"
    ELSE IF team.hierarchy /\ team.leaderId = agentId THEN "InvariantViolation"
    ELSE IF team.hierarchy /\ agentId \in team.managers /\ team.reports[agentId] # {}
    THEN "InvariantViolation"
    ELSE "ok"

\* removeMember(teamId, agentId)
RemoveMember(agentId) ==
    /\ Result("removeMember", RemoveMemberOutcome(agentId))
    /\ IF RemoveMemberOutcome(agentId) = "ok"
       THEN /\ collab' = Evict(collab, agentId)
            /\ team' = [team EXCEPT !.members[agentId] = "none"]
       ELSE UNCHANGED <<team, collab>>
    /\ UNCHANGED <<draft, handlers, broadcast>>

\* startCollaboration(collaboration)
StartCollaboration(participants) ==
    /\ IF ~team.stored
       THEN Result("startCollaboration", "NotFound") /\ UNCHANGED collab
       ELSE IF \E participantId \in participants : ~IsMember(team, participantId)
       THEN Result("startCollaboration", "ValidationError") /\ UNCHANGED collab
       ELSE /\ Result("startCollaboration", "ok")
            /\ collab' = [status |-> "active", participants |-> participants,
                          summary |-> "none"]
    /\ UNCHANGED <<draft, team, handlers, broadcast>>

\* endCollaboration(id, summary), called by the application
EndCollaboration ==
    /\ IF collab.status = "none"
       THEN Result("endCollaboration", "NotFound") /\ UNCHANGED collab
       ELSE Result("endCollaboration", "ok") /\ collab' = Completed(collab, "given")
    /\ UNCHANGED <<draft, team, handlers, broadcast>>

\* registerMessageHandler(agentId, handler)
RegisterMessageHandler(agentId) ==
    /\ agentId \notin handlers
    /\ handlers' = handlers \cup {agentId}
    /\ UNCHANGED <<draft, team, collab, broadcast, teamLast>>

\* broadcastMessage with the status filter left out
RecipientsAnyStatus(t) ==
    {a \in TeamAgents : IsMember(t, a) /\ a \in handlers}

\* broadcastMessage: the active members that have a handler
Recipients(t) ==
    {a \in TeamAgents : t.members[a] = "active" /\ a \in handlers}

\* broadcastMessage(teamId, message) up to await Promise.all: every handler
\* is called while the member list is mapped
BroadcastMessage(message) ==
    /\ broadcast.status # "running"
    /\ IF ~team.stored
       THEN Result("broadcastMessage", "NotFound") /\ UNCHANGED broadcast
       ELSE /\ Result("broadcastMessage", "pending")
            /\ broadcast' = [status |-> "running", message |-> message,
                             invoked |-> [a \in TeamAgents |->
                                             IF a \in Recipients(team)
                                             THEN <<message>> ELSE <<>>],
                             pending |-> Recipients(team), threw |-> {}]
    /\ UNCHANGED <<draft, team, collab, handlers>>

\* the promise of a handler resolves
HandlerResolves(agentId) ==
    /\ broadcast.status = "running"
    /\ agentId \in broadcast.pending
    /\ broadcast' = [broadcast EXCEPT !.pending = @ \ {agentId}]
    /\ UNCHANGED <<draft, team, collab, handlers, teamLast>>

\* a handler throws or its promise rejects: caught and logged
HandlerThrows(agentId) ==
    /\ broadcast.status = "running"
    /\ agentId \in broadcast.pending
    /\ broadcast' = [broadcast EXCEPT !.pending = @ \ {agentId}, !.threw = @ \cup {agentId}]
    /\ UNCHANGED <<draft, team, collab, handlers, teamLast>>

\* await Promise.all(promises) is done
BroadcastReturns ==
    /\ broadcast.status = "running"
    /\ broadcast.pending = {}
    /\ broadcast' = [broadcast EXCEPT !.status = "returned"]
    /\ Result("broadcastMessage", "ok")
    /\ UNCHANGED <<draft, team, collab, handlers>>

\* a reporting chain written as links <<manager, report>>; the report "-"
\* stands for a manager listed with no report
ChainLinks ==
    {ls \in SUBSET (TeamAgents \X (TeamAgents \cup {"-"})) : Cardinality(ls) <= MaxLinks}

WithHierarchy(t, leaderId, links) ==
    [t EXCEPT !.hierarchy = TRUE, !.leaderId = leaderId,
              !.managers = {l[1] : l \in links},
              !.reports = [a \in TeamAgents |->
                              {l[2] : l \in {k \in links : k[1] = a /\ k[2] # "-"}}]]

WithMembers(ms) ==
    [NoTeam EXCEPT !.members = [a \in TeamAgents |-> IF a \in ms THEN "active" ELSE "none"]]

\* the teams an application builds: every member list, without a hierarchy or
\* with any leader and any reporting chain of at most MaxLinks links
TeamDrafts ==
    UNION {{WithMembers(ms)}
           \cup {WithHierarchy(WithMembers(ms), l, ls) : l \in TeamAgents, ls \in ChainLinks}
           : ms \in SUBSET TeamAgents}

\* teams without a hierarchy whose members are active or inactive
BroadcastDrafts ==
    {[NoTeam EXCEPT !.members = ms] : ms \in [TeamAgents -> {"none", "active", "inactive"}]}

BroadcastInit ==
    /\ draft \in BroadcastDrafts
    /\ team = NoTeam
    /\ collab = NoCollab
    /\ handlers = {}
    /\ broadcast = NoBroadcast
    /\ teamLast = NoTeamResult

TeamInit ==
    /\ draft \in TeamDrafts
    /\ team = NoTeam
    /\ collab = NoCollab
    /\ handlers = {}
    /\ broadcast = NoBroadcast
    /\ teamLast = NoTeamResult

TeamIdle ==
    /\ draft = NoTeam
    /\ team = NoTeam
    /\ collab = NoCollab
    /\ handlers = {}
    /\ broadcast = NoBroadcast
    /\ teamLast = NoTeamResult

\* =========================================================================
\* Teams and collaborations of several teams:
\* src/src/core/BaseCoordinationProvider.ts (teams without a hierarchy)
\* =========================================================================
VARIABLES
    regTeams,          \* the teams Map: team id -> [stored, members]
    regCollab,         \* the entry of the collaborations Map for one collaboration id
    regLast            \* how the last call ended, and the team it named

regVars ==
    <<regTeams, regCollab, regLast>>

RegTeamIds ==
    {"A", "B"}

RegAgents ==
    {"x", "y"}

NoRegTeam ==
    [stored |-> FALSE, members |-> {}]

NoRegCollab ==
    [status |-> "none", teamId |-> "A", participants |-> {}, summary |-> "none"]

NoRegResult ==
    [op |-> "none", outcome |-> "none", teamId |-> "A"]

RegResult(op, outcome, teamId) ==
    regLast' = [op |-> op, outcome |-> outcome, teamId |-> teamId]

\* createTeam(team) for a team without hierarchy: an entry of the same id is replaced
RegCreateTeam(teamId, members) ==
    /\ IF members = {}
       THEN RegResult("createTeam", "ValidationError", teamId) /\ UNCHANGED regTeams
       ELSE /\ RegResult("createTeam", "ok", teamId)
            /\ regTeams' = [regTeams EXCEPT ![teamId] = [stored |-> TRUE, members |-> members]]
    /\ UNCHANGED regCollab

\* addMember(teamId, agentId, role)
RegAddMember(teamId, agentId) ==
    /\ IF ~regTeams[teamId].stored
       THEN RegResult("addMember", "NotFound", teamId) /\ UNCHANGED regTeams
       ELSE IF agentId \in regTeams[teamId].members
       THEN RegResult("addMember", "AlreadyMember", teamId) /\ UNCHANGED regTeams
       ELSE /\ RegResult("addMember", "ok", teamId)
            /\ regTeams' = [regTeams EXCEPT ![teamId].members = @ \cup {agentId}]
    /\ UNCHANGED regCollab

\* removeMember(teamId, agentId): the eviction loop runs over every entry of
\* the collaborations Map
RegRemoveMember(teamId, agentId) ==
    IF ~regTeams[teamId].stored
    THEN RegResult("removeMember", "NotFound", teamId) /\ UNCHANGED <<regTeams, regCollab>>
    ELSE /\ RegResult("removeMember", "ok", teamId)
         /\ regCollab' = Evict(regCollab, agentId)
         /\ regTeams' = [regTeams EXCEPT ![teamId].members = @ \ {agentId}]

\* startCollaboration(collaboration)
RegStartCollaboration(teamId, participants) ==
    /\ IF ~regTeams[teamId].stored
       THEN RegResult("startCollaboration", "NotFound", teamId) /\ UNCHANGED regCollab
       ELSE IF \E participantId \in participants : participantId \notin regTeams[teamId].members
       THEN RegResult("startCollaboration", "ValidationError", teamId) /\ UNCHANGED regCollab
       ELSE /\ RegResult("startCollaboration", "ok", teamId)
            /\ regCollab' = [status |-> "active", teamId |-> teamId,
                             participants |-> participants, summary |-> "none"]
    /\ UNCHANGED regTeams

\* endCollaboration(id, summary)
RegEndCollaboration ==
    /\ IF regCollab.status = "none"
       THEN RegResult("endCollaboration", "NotFound", regCollab.teamId) /\ UNCHANGED regCollab
       ELSE /\ RegResult("endCollaboration", "ok", regCollab.teamId)
            /\ regCollab' = Completed(regCollab, "given")
    /\ UNCHANGED regTeams

RegInit ==
    /\ regTeams = [t \in RegTeamIds |-> NoRegTeam]
    /\ regCollab = NoRegCollab
    /\ regLast = NoRegResult

RegIdle ==
    /\ regTeams = [t \in RegTeamIds |-> NoRegTeam]
    /\ regCollab = NoRegCollab
    /\ regLast = NoRegResult

\* =========================================================================
\* Hierarchy depth: src/src/core/BaseCoordinationProvider.ts
\* (calculateHierarchyDepth, called by getTeamStatus)
\* =========================================================================
VARIABLES
    depthHier,      \* team.hierarchy is present
    depthChain,     \* team.hierarchy.reportingChain: member -> list of reports
    depthVisited,   \* the visited set of the calculateHierarchyDepth call
    depthStack,     \* the findMaxDepth activations that are mapping their reports
    depthResult,    \* the value calculateHierarchyDepth returned (0: none yet)
    depthPhase      \* idle / running / done

depthVars ==
    <<depthHier, depthChain, depthVisited, depthStack, depthResult, depthPhase>>

\* the members of the team; createTeam admits only members as leader, managers
\* and reports
HierAgents ==
    {"L", "M", "R"}

\* team.hierarchy.leaderId
HierLeader ==
    "L"

\* the reporting chain in which the three members have these report lists
ReportingChain(l, m, r) ==
    [a \in HierAgents |-> IF a = "L" THEN l ELSE IF a = "M" THEN m ELSE r]

Larger(a, b) ==
    IF a >= b THEN a ELSE b

\* a value returned by findMaxDepth reaches its caller: the map of the calling
\* activation, or calculateHierarchyDepth itself
DepthDeliver(stack, v) ==
    IF stack = <<>>
    THEN /\ depthResult' = v
         /\ depthPhase' = "done"
         /\ depthStack' = <<>>
    ELSE LET top == stack[Len(stack)]
         IN /\ depthStack' = [stack EXCEPT ![Len(stack)] =
                                 [top EXCEPT !.best = Larger(top.best, v),
                                             !.idx = top.idx + 1]]
            /\ depthPhase' = "running"
            /\ UNCHANGED depthResult

\* a revisited node counting as one level
FindMaxDepthCounted(agentId) ==
    IF agentId \in depthVisited
    THEN /\ DepthDeliver(depthStack, 1)
         /\ UNCHANGED depthVisited
    ELSE /\ depthVisited' = depthVisited \cup {agentId}
         /\ IF depthChain[agentId] = <<>>
            THEN DepthDeliver(depthStack, 1)
            ELSE /\ depthStack' = Append(depthStack,
                                         [agent |-> agentId, idx |-> 1, best |-> 0])
                 /\ depthPhase' = "running"
                 /\ UNCHANGED depthResult

\* findMaxDepth(agentId), up to the map over its reports; Math.max over the
\* non-negative values of a non-empty list is the largest of them and 0
FindMaxDepth(agentId) ==
    IF agentId \in depthVisited
    THEN /\ DepthDeliver(depthStack, 0)
         /\ UNCHANGED depthVisited
    ELSE /\ depthVisited' = depthVisited \cup {agentId}
         /\ IF depthChain[agentId] = <<>>
            THEN DepthDeliver(depthStack, 1)
            ELSE /\ depthStack' = Append(depthStack,
                                         [agent |-> agentId, idx |-> 1, best |-> 0])
                 /\ depthPhase' = "running"
                 /\ UNCHANGED depthResult

\* getTeamStatus reaches calculateHierarchyDepth(team)
CalculateHierarchyDepth ==
    /\ depthPhase = "idle"
    /\ IF ~depthHier
       THEN /\ depthResult' = 1
            /\ depthPhase' = "done"
            /\ UNCHANGED <<depthVisited, depthStack>>
       ELSE FindMaxDepth(HierLeader)
    /\ UNCHANGED <<depthHier, depthChain>>

\* reports.map(findMaxDepth) calls findMaxDepth on the next report
DepthMapNext ==
    /\ depthPhase = "running"
    /\ depthStack # <<>>
    /\ LET top == depthStack[Len(depthStack)]
       IN /\ top.idx <= Len(depthChain[top.agent])
          /\ FindMaxDepth(depthChain[top.agent][top.idx])
    /\ UNCHANGED <<depthHier, depthChain>>

\* the map is over: return 1 + Math.max(...)
DepthReturn ==
    /\ depthPhase = "running"
    /\ depthStack # <<>>
    /\ LET top == depthStack[Len(depthStack)]
       IN /\ top.idx > Len(depthChain[top.agent])
          /\ DepthDeliver(SubSeq(depthStack, 1, Len(depthStack) - 1), 1 + top.best)
    /\ UNCHANGED <<depthHier, depthChain, depthVisited>>

\* a stored team, with or without a hierarchy
DepthInit ==
    /\ depthHier \in BOOLEAN
    /\ \E n \in [HierAgents -> 0..MaxReports] :
          /\ n["L"] + n["M"] + n["R"] <= (IF depthHier THEN MaxReports ELSE 0)
          /\ \E l \in [1..n["L"] -> HierAgents], m \in [1..n["M"] -> HierAgents],
                r \in [1..n["R"] -> HierAgents] :
                depthChain = ReportingChain(l, m, r)
    /\ depthVisited = {}
    /\ depthStack = <<>>
    /\ depthResult = 0
    /\ depthPhase = "idle"

DepthIdle ==
    /\ depthHier = FALSE
    /\ depthChain = [a \in HierAgents |-> <<>>]
    /\ depthVisited = {}
    /\ depthStack = <<>>
    /\ depthResult = 0
    /\ depthPhase = "idle"

\* =========================================================================
\* Dataset provider: src/src/core/BaseCoordinationProvider.ts
\* (BaseDatasetProvider, one dataset)
\* =========================================================================
VARIABLES
    dataRules,      \* dataset.validation.rules is present
    dataEntries,    \* dataset.entries; an entry is named by the call that pushed it
    dataCalls       \* the saveEntry calls: where each one is, and whether its
                    \* entry passes every rule

dataVars ==
    <<dataRules, dataEntries, dataCalls>>

SaveIds ==
    1..MaxSaves

NoSave ==
    [pc |-> "none", valid |-> TRUE]

\* saveEntry(datasetId, entry) is called and suspends at await this.loadDataset
SaveEntry(c, valid) ==
    /\ dataCalls[c].pc = "none"
    /\ dataCalls' = [dataCalls EXCEPT ![c] = [pc |-> "loading", valid |-> valid]]
    /\ UNCHANGED <<dataRules, dataEntries>>

\* the call resumes with the dataset: it pushes its entry and, with rules,
\* suspends at await this.validateEntry; the metrics update leaves entries alone
SaveEntryPush(c) ==
    /\ dataCalls[c].pc = "loading"
    /\ dataEntries' = Append(dataEntries, c)
    /\ dataCalls' = [dataCalls EXCEPT ![c].pc =
                        IF dataRules THEN "validating" ELSE "succeeded"]
    /\ UNCHANGED dataRules

\* the call resumes with isValid: an invalid entry makes it pop the last element
\* of entries and throw
SaveEntryValidated(c) ==
    /\ dataCalls[c].pc = "validating"
    /\ IF dataCalls[c].valid
       THEN /\ dataCalls' = [dataCalls EXCEPT ![c].pc = "succeeded"]
            /\ UNCHANGED dataEntries
       ELSE /\ dataCalls' = [dataCalls EXCEPT ![c].pc = "failed"]
            /\ dataEntries' = SubSeq(dataEntries, 1, Len(dataEntries) - 1)
    /\ UNCHANGED dataRules

\* createDataset(id, type, validation): no entries yet
DataInit ==
    /\ dataRules \in BOOLEAN
    /\ dataEntries = <<>>
    /\ dataCalls = [c \in SaveIds |-> NoSave]

DataIdle ==
    /\ dataRules = FALSE
    /\ dataEntries = <<>>
    /\ dataCalls = [c \in SaveIds |-> NoSave]

\* =========================================================================
\* Scheduled tasks: src/src/core/BaseGoalProvider.ts and the task loop of
\* src/unnamed/part_003
\* =========================================================================
VARIABLES
    goalTasks,         \* the tasks Map of the goal provider: task id -> Task
    clock,             \* what new Date() reads: [day, hour]
    tick,              \* the checkTasks run in progress, if any: the list returned by
                       \* getNextTasks, the time it read, the position of the for
                       \* loop and the weights stored when the run began
    taskFired,         \* metadata of the last task message pushed by executeTask
    ticks              \* checkTasks runs started

goalVars ==
    <<goalTasks, clock, tick, taskFired, ticks>>

\* task ids in the insertion order of the tasks Map
GoalTaskOrder ==
    <<"t1", "t2">>

GoalTaskIds ==
    {GoalTaskOrder[i] : i \in 1..Len(GoalTaskOrder)}

Hours ==
    0..MaxHour

Days ==
    {0, 1}

\* task.weight === undefined
NoWeight ==
    [defined |-> FALSE, value |-> 0]

Weight(n) ==
    [defined |-> TRUE, value |-> n]

\* task.schedule === undefined
NoSchedule ==
    [present |-> FALSE, hasDays |-> FALSE, daysOfWeek |-> {}, timeRanges |-> <<>>]

NoTick ==
    [phase |-> "idle", list |-> <<>>, i |-> 0, now |-> [day |-> 0, hour |-> 0],
     before |-> [t \in GoalTaskIds |-> NoWeight]]

NoTaskFired ==
    [taskId |-> "none", weight |-> NoWeight]

\* hour >= range.start && hour < range.end, with the end hour taken as part of the range
RangeMatchesClosed(range, hour) ==
    hour >= range.start /\ hour <= range.end

\* getNextTasks: hour >= range.start && hour < range.end
RangeMatches(range, hour) ==
    hour >= range.start /\ hour < range.end

\* the filter of getNextTasks
IsNextTask(task, day, hour) ==
    IF task.status # "pending" THEN FALSE
    ELSE IF ~task.schedule.present THEN TRUE
    ELSE IF task.schedule.hasDays /\ day \notin task.schedule.daysOfWeek THEN FALSE
    ELSE \E k \in 1..Len(task.schedule.timeRanges) :
            RangeMatches(task.schedule.timeRanges[k], hour)

\* Array.from(this.tasks.values()).filter(...), in insertion order
RECURSIVE FilterNext(_, _, _)
FilterNext(ids, day, hour) ==
    IF ids = <<>> THEN <<>>
    ELSE IF IsNextTask(goalTasks[Head(ids)], day, hour)
    THEN <<Head(ids)>> \o FilterNext(Tail(ids), day, hour)
    ELSE FilterNext(Tail(ids), day, hour)

\* the sequence without its k-th element
DropAt(s, k) ==
    SubSeq(s, 1, k - 1) \o SubSeq(s, k + 1, Len(s))

\* the sort taking the last of the tasks of highest priority first: not stable
RECURSIVE SortTiesLast(_)
SortTiesLast(ids) ==
    IF ids = <<>> THEN <<>>
    ELSE LET k == CHOOSE i \in 1..Len(ids) :
                     /\ \A j \in 1..Len(ids) :
                           goalTasks[ids[j]].priority <= goalTasks[ids[i]].priority
                     /\ \A j \in (i + 1)..Len(ids) :
                           goalTasks[ids[j]].priority < goalTasks[ids[i]].priority
         IN <<ids[k]>> \o SortTiesLast(DropAt(ids, k))

\* sort((a, b) => b.priority - a.priority): descending, stable
RECURSIVE SortByPriority(_)
SortByPriority(ids) ==
    IF ids = <<>> THEN <<>>
    ELSE LET k == CHOOSE i \in 1..Len(ids) :
                     /\ \A j \in 1..Len(ids) :
                           goalTasks[ids[j]].priority <= goalTasks[ids[i]].priority
                     /\ \A j \in 1..(i - 1) :
                           goalTasks[ids[j]].priority < goalTasks[ids[i]].priority
         IN <<ids[k]>> \o SortByPriority(DropAt(ids, k))

\* getNextTasks(count) at the given time
NextTasks(count, day, hour) ==
    LET sorted == SortByPriority(FilterNext(GoalTaskOrder, day, hour))
    IN SubSeq(sorted, 1, IF count < Len(sorted) THEN count ELSE Len(sorted))

\* shouldExecuteTask: the index of the range its loop returns true at, 0 if none
FirstMatch(task, hour) ==
    LET matching == {k \in 1..Len(task.schedule.timeRanges) :
                        /\ hour >= task.schedule.timeRanges[k].start
                        /\ hour < task.schedule.timeRanges[k].end}
    IN IF matching = {} THEN 0 ELSE CHOOSE k \in matching : \A j \in matching : k <= j

\* shouldExecuteTask: its return value
ShouldExecuteTask(task, day, hour) ==
    IF ~task.schedule.present THEN TRUE
    ELSE IF task.schedule.hasDays /\ day \notin task.schedule.daysOfWeek THEN FALSE
    ELSE FirstMatch(task, hour) # 0

\* the product of the multipliers of every matching range
RECURSIVE AllMultipliers(_, _, _)
AllMultipliers(task, hour, k) ==
    IF k = 0 THEN 1
    ELSE IF /\ hour >= task.schedule.timeRanges[k].start
            /\ hour < task.schedule.timeRanges[k].end
    THEN task.schedule.timeRanges[k].multiplier * AllMultipliers(task, hour, k - 1)
    ELSE AllMultipliers(task, hour, k - 1)

\* the weight multiplied once for every matching range
WeightTimesAll(task, day, hour) ==
    IF task.schedule.present /\ ShouldExecuteTask(task, day, hour) /\ task.weight.defined
    THEN Weight(task.weight.value * AllMultipliers(task, hour, Len(task.schedule.timeRanges)))
    ELSE task.weight

\* shouldExecuteTask: task.weight after the call
WeightAfterCheck(task, day, hour) ==
    IF task.schedule.present /\ ShouldExecuteTask(task, day, hour) /\ task.weight.defined
    THEN Weight(task.weight.value * task.schedule.timeRanges[FirstMatch(task, hour)].multiplier)
    ELSE task.weight

\* the clock moves on by an hour
ClockAdvance ==
    /\ clock' = IF clock.hour < MaxHour
                THEN [clock EXCEPT !.hour = @ + 1]
                ELSE [day |-> IF clock.day + 1 \in Days THEN clock.day + 1 ELSE 0, hour |-> 0]
    /\ UNCHANGED <<goalTasks, tick, taskFired, ticks>>

\* checkTasks: const tasks = await this.goalProvider.getNextTasks(5)
CheckTasksStart ==
    /\ tick.phase = "idle"
    /\ ticks < MaxTicks
    /\ ticks' = ticks + 1
    /\ tick' = [phase |-> "check",
                list |-> NextTasks(TaskCheckCount, clock.day, clock.hour),
                i |-> 1,
                now |-> clock,
                before |-> [t \in GoalTaskIds |-> goalTasks[t].weight]]
    /\ UNCHANGED <<goalTasks, clock, taskFired>>

\* checkTasks: shouldExecuteTask(task) true, then executeTask(task) up to the
\* push of queueMessage.  The task is the object held by the tasks Map, so the
\* multiplied weight is the stored one.
CheckTasksFire ==
    /\ tick.phase = "check"
    /\ tick.i <= Len(tick.list)
    /\ LET t == tick.list[tick.i]
       IN /\ ShouldExecuteTask(goalTasks[t], clock.day, clock.hour)
          /\ goalTasks' = [goalTasks EXCEPT
                              ![t].weight = WeightAfterCheck(goalTasks[t], clock.day, clock.hour)]
          /\ taskFired' = [taskId |-> t,
                           weight |-> WeightAfterCheck(goalTasks[t], clock.day, clock.hour)]
    /\ tick' = [tick EXCEPT !.phase = "metrics"]
    /\ UNCHANGED <<clock, ticks>>

\* checkTasks: shouldExecuteTask(task) false
CheckTasksSkip ==
    /\ tick.phase = "check"
    /\ tick.i <= Len(tick.list)
    /\ ~ShouldExecuteTask(goalTasks[tick.list[tick.i]], clock.day, clock.hour)
    /\ tick' = [tick EXCEPT !.i = @ + 1]
    /\ UNCHANGED <<goalTasks, clock, taskFired, ticks>>

\* checkTasks: await this.goalProvider.updateTaskMetrics(task.id, executionTime)
UpdateTaskMetrics ==
    /\ tick.phase = "metrics"
    /\ goalTasks' = [goalTasks EXCEPT ![tick.list[tick.i]].executionCount = @ + 1]
    /\ tick' = [tick EXCEPT !.phase = "check", !.i = @ + 1]
    /\ UNCHANGED <<clock, taskFired, ticks>>

\* checkTasks: the for loop is done
CheckTasksEnd ==
    /\ tick.phase = "check"
    /\ tick.i > Len(tick.list)
    /\ tick' = [tick EXCEPT !.phase = "idle"]
    /\ UNCHANGED <<goalTasks, clock, taskFired, ticks>>

\* the time ranges of a schedule: none, one, or two; the first carries the
\* multiplier 2 and the second the multiplier 3
RangeLists ==
    {<<>>}
    \cup {<<[start |-> s, end |-> e, multiplier |-> 2]>> : s \in Hours, e \in 0..(MaxHour + 1)}
    \cup {<<[start |-> s1, end |-> e1, multiplier |-> 2],
            [start |-> s2, end |-> e2, multiplier |-> 3]>> :
             s1 \in Hours, e1 \in 0..(MaxHour + 1), s2 \in Hours, e2 \in 0..(MaxHour + 1)}

\* schedules: no day filter or a filter for one day
Schedules ==
    {NoSchedule}
    \cup {[present |-> TRUE, hasDays |-> FALSE, daysOfWeek |-> {}, timeRanges |-> rs] :
             rs \in RangeLists}
    \cup {[present |-> TRUE, hasDays |-> TRUE, daysOfWeek |-> {d}, timeRanges |-> rs] :
             d \in Days, rs \in RangeLists}

\* the task under test and a second, unscheduled task of higher priority added after it
GoalTaskSets ==
    {[t \in GoalTaskIds |->
         IF t = "t1"
         THEN [status |-> st, priority |-> 2, weight |-> w, schedule |-> sc,
               executionCount |-> 0]
         ELSE [status |-> "pending", priority |-> 3, weight |-> NoWeight,
               schedule |-> NoSchedule, executionCount |-> 0]] :
        st \in {"pending", "completed"}, w \in {NoWeight, Weight(2)}, sc \in Schedules}

\* a schedule for the first hour of every day
FirstHour ==
    [present |-> TRUE, hasDays |-> FALSE, daysOfWeek |-> {},
     timeRanges |-> <<[start |-> 0, end |-> 1, multiplier |-> 2]>>]

\* tasks of every priority up to MaxPriority, pending or completed, unscheduled
\* or scheduled for the first hour
PriorityTaskSets ==
    [GoalTaskIds ->
        {[status |-> st, priority |-> pr, weight |-> NoWeight, schedule |-> sc,
          executionCount |-> 0] :
            st \in {"pending", "completed"}, pr \in 1..MaxPriority,
            sc \in {NoSchedule, FirstHour}}]

PriorityInit ==
    /\ goalTasks \in PriorityTaskSets
    /\ clock = [day |-> 0, hour |-> 0]
    /\ tick = NoTick
    /\ taskFired = NoTaskFired
    /\ ticks = 0

GoalInit ==
    /\ goalTasks \in GoalTaskSets
    /\ clock = [day |-> 0, hour |-> 0]
    /\ tick = NoTick
    /\ taskFired = NoTaskFired
    /\ ticks = 0

\* the agent has no goal provider
GoalIdle ==
    /\ goalTasks = [t \in GoalTaskIds |->
                       [status |-> "pending", priority |-> 3, weight |-> NoWeight,
                        schedule |-> NoSchedule, executionCount |-> 0]]
    /\ clock = [day |-> 0, hour |-> 0]
    /\ tick = NoTick
    /\ taskFired = NoTaskFired
    /\ ticks = 0

\* =========================================================================
\* Scheduler timers: startTaskLoop, pause, resume and shutdown of
\* src/unnamed/part_003 for an agent that has a goal provider
\* =========================================================================
VARIABLES
    schedRunning,      \* isRunning of this agent
    schedLifecycle,    \* idle / running / paused / stopped
    schedListener,     \* an 'error' listener is registered on the emitter
    taskLoops,         \* the startTaskLoop() invocations: in their first check,
                       \* holding a live interval timer, cleared, or dead
    taskTimer,         \* this.taskTimer: the invocation whose timer it holds, 0 = undefined
    schedErrors,       \* invocations one of whose checks was delivered as an 'error' event
    lastTick           \* the last run of checkTasks from an interval timer

schedVars ==
    <<schedRunning, schedLifecycle, schedListener, taskLoops, taskTimer, schedErrors,
      lastTick>>

TaskLoopIds ==
    1..MaxStarts

NoTaskLoop ==
    [pc |-> "none", failed |-> FALSE]

NoTimerTick ==
    [timer |-> 0, failed |-> FALSE, stopped |-> FALSE]

FreeTaskLoops ==
    {s \in TaskLoopIds : taskLoops[s].pc = "none"}

\* startTaskLoop() up to `await checkTasks()`
StartTaskLoop ==
    /\ FreeTaskLoops # {}
    /\ taskLoops' = [taskLoops EXCEPT
                        ![CHOOSE s \in FreeTaskLoops : \A r \in FreeTaskLoops : s <= r] =
                            [pc |-> "check", failed |-> FALSE]]

\* initialize() of an agent that is not running
SchedInitialize ==
    /\ schedLifecycle = "idle"
    /\ ~schedRunning
    /\ schedRunning' = TRUE
    /\ schedLifecycle' = "running"
    /\ StartTaskLoop
    /\ UNCHANGED <<schedListener, taskTimer, schedErrors, lastTick>>

\* pause(): clears isRunning; the timer is left alone
SchedPause ==
    /\ schedLifecycle \in {"running", "paused"}
    /\ schedRunning' = FALSE
    /\ schedLifecycle' = "paused"
    /\ UNCHANGED <<schedListener, taskLoops, taskTimer, schedErrors, lastTick>>

\* resume() before any shutdown: when not running, sets isRunning and calls
\* startTaskLoop() again
SchedResume ==
    /\ schedLifecycle # "idle"
    /\ ~schedRunning
    /\ schedRunning' = TRUE
    /\ schedLifecycle' = "running"
    /\ StartTaskLoop
    /\ UNCHANGED <<schedListener, taskTimer, schedErrors, lastTick>>

\* shutdown(): clears isRunning and calls clearInterval(this.taskTimer) when
\* the field is set
SchedShutdown ==
    /\ schedLifecycle # "idle"
    /\ schedRunning' = FALSE
    /\ schedLifecycle' = "stopped"
    /\ taskLoops' = IF taskTimer # 0 /\ taskLoops[taskTimer].pc = "timer"
                    THEN [taskLoops EXCEPT ![taskTimer].pc = "cleared"]
                    ELSE taskLoops
    /\ UNCHANGED <<schedListener, taskTimer, schedErrors, lastTick>>

\* the first checkTasks() of an invocation settles.  checkTasks catches the
\* failure of getNextTasks, executeTask or updateTaskMetrics and emits 'error':
\* with a listener the event is delivered and the invocation goes on to
\* setInterval; with none emit throws, checkTasks rejects and startTaskLoop
\* ends before setInterval.
FirstCheckDone(s) ==
    /\ taskLoops[s].pc = "check"
    /\ \E ok \in BOOLEAN :
          IF ok \/ schedListener
          THEN /\ taskLoops' = [taskLoops EXCEPT ![s] = [pc |-> "timer", failed |-> ~ok]]
               /\ taskTimer' = s
               /\ schedErrors' = IF ok THEN schedErrors ELSE schedErrors \cup {s}
          ELSE /\ taskLoops' = [taskLoops EXCEPT ![s] = [pc |-> "dead", failed |-> TRUE]]
               /\ UNCHANGED <<taskTimer, schedErrors>>
    /\ UNCHANGED <<schedRunning, schedLifecycle, schedListener, lastTick>>

\* an interval timer fires and its checkTasks() runs to its end; the timer
\* stays set whatever the outcome
TimerTick(s) ==
    /\ taskLoops[s].pc = "timer"
    /\ \E ok \in BOOLEAN :
          /\ lastTick' = [timer |-> s, failed |-> ~ok, stopped |-> schedLifecycle = "stopped"]
          /\ taskLoops' = [taskLoops EXCEPT ![s].failed = @ \/ ~ok]
          /\ schedErrors' = IF ~ok /\ schedListener THEN schedErrors \cup {s} ELSE schedErrors
    /\ UNCHANGED <<schedRunning, schedLifecycle, schedListener, taskTimer>>

SchedInit ==
    /\ schedRunning = FALSE
    /\ schedLifecycle = "idle"
    /\ schedListener \in BOOLEAN
    /\ taskLoops = [s \in TaskLoopIds |-> NoTaskLoop]
    /\ taskTimer = 0
    /\ schedErrors = {}
    /\ lastTick = NoTimerTick

\* the agent has no goal provider: startTaskLoop returns at its first line
SchedIdle ==
    /\ schedRunning = FALSE
    /\ schedLifecycle = "idle"
    /\ schedListener = FALSE
    /\ taskLoops = [s \in TaskLoopIds |-> NoTaskLoop]
    /\ taskTimer = 0
    /\ schedErrors = {}
    /\ lastTick = NoTimerTick

\* =========================================================================
\* Specifications
\* =========================================================================
InitLoop ==
    /\ aiProvider \in BOOLEAN
    /\ stateProvider \in BOOLEAN
    /\ memoryProvider \in BOOLEAN
    /\ errorListener \in BOOLEAN
    /\ isRunning = FALSE
    /\ messageQueue = <<>>
    /\ contextWindow = <<>>
    /\ loops = [l \in 1..MaxLoops |-> NoLoop]
    /\ stored \in {Null, Persisted}
    /\ (stored # Null => stateProvider)
    /\ memories = <<>>
    /\ aiLog = <<>>
    /\ errorEvents = {}
    /\ messageEvents = {}
    /\ aiFailed = {}
    /\ enqueued = 0
    /\ lifecycle = "idle"
    /\ turnBase = NotLoaded
    /\ lastCall = NoCall

LoopIdle ==
    /\ aiProvider = FALSE
    /\ stateProvider = FALSE
    /\ memoryProvider = FALSE
    /\ errorListener = FALSE
    /\ isRunning = FALSE
    /\ messageQueue = <<>>
    /\ contextWindow = <<>>
    /\ loops = [l \in 1..MaxLoops |-> NoLoop]
    /\ stored = Null
    /\ memories = <<>>
    /\ aiLog = <<>>
    /\ errorEvents = {}
    /\ messageEvents = {}
    /\ aiFailed = {}
    /\ enqueued = 0
    /\ lifecycle = "idle"
    /\ turnBase = NotLoaded
    /\ lastCall = NoCall

vars ==
    <<loopVars, coreVars, swarmVars, voteVars, teamVars, goalVars, schedVars, assignVars, regVars, depthVars, dataVars>>

\* what the steps of one component leave alone
exceptLoop ==
    <<coreVars, swarmVars, voteVars, teamVars, goalVars, schedVars, assignVars, regVars, depthVars, dataVars>>

exceptCore ==
    <<loopVars, swarmVars, voteVars, teamVars, goalVars, schedVars, assignVars, regVars, depthVars, dataVars>>

exceptSwarm ==
    <<loopVars, coreVars, voteVars, teamVars, goalVars, schedVars, assignVars, regVars, depthVars, dataVars>>

exceptDecisions ==
    <<loopVars, coreVars, teamVars, goalVars, schedVars, assignVars, regVars, depthVars, dataVars>>

exceptTeam ==
    <<loopVars, coreVars, swarmVars, voteVars, goalVars, schedVars, assignVars, regVars, depthVars, dataVars>>

exceptGoal ==
    <<loopVars, coreVars, swarmVars, voteVars, teamVars, schedVars, assignVars, regVars, depthVars, dataVars>>

exceptSched ==
    <<loopVars, coreVars, swarmVars, voteVars, teamVars, goalVars, assignVars, regVars, depthVars, dataVars>>

exceptAssign ==
    <<loopVars, coreVars, voteVars, teamVars, goalVars, schedVars, regVars, depthVars, dataVars>>

\* the message-loop agent with its loops, timers and callers
NextLoop ==
    \/ Initialize /\ UNCHANGED exceptLoop
    \/ QueueMessage /\ UNCHANGED exceptLoop
    \/ Pause /\ UNCHANGED exceptLoop
    \/ Resume /\ UNCHANGED exceptLoop
    \/ Shutdown /\ UNCHANGED exceptLoop
    \/ \E l \in 1..MaxLoops : LoopWake(l) /\ UNCHANGED exceptLoop
    \/ \E l \in 1..MaxLoops : StoreDone(l) /\ UNCHANGED exceptLoop
    \/ \E l \in 1..MaxLoops : SearchDone(l) /\ UNCHANGED exceptLoop
    \/ \E l \in 1..MaxLoops : AIDone(l) /\ UNCHANGED exceptLoop
    \/ \E l \in 1..MaxLoops : SigDone(l) /\ UNCHANGED exceptLoop

StartLoop ==
    InitLoop /\ CoreIdle /\ SwarmIdle /\ VoteIdle /\ TeamIdle /\ GoalIdle /\ SchedIdle /\ AssignIdle /\ RegIdle /\ DepthIdle /\ DataIdle

SpecLoop ==
    StartLoop /\ [][NextLoop]_vars

\* the state-backed agent, its caller awaiting every call
NextCore ==
    \/ CoreInitialize /\ UNCHANGED exceptCore
    \/ CoreShutdown /\ UNCHANGED exceptCore
    \/ CoreProcess /\ UNCHANGED exceptCore

StartCore ==
    LoopIdle /\ CoreInit /\ SwarmIdle /\ VoteIdle /\ TeamIdle /\ GoalIdle /\ SchedIdle /\ AssignIdle /\ RegIdle /\ DepthIdle /\ DataIdle

SpecCore ==
    StartCore /\ [][NextCore]_vars

\* the same agent on a conversation that already exists
StartWindow ==
    LoopIdle /\ WindowInit /\ SwarmIdle /\ VoteIdle /\ TeamIdle /\ GoalIdle /\ SchedIdle /\ AssignIdle /\ RegIdle /\ DepthIdle /\ DataIdle

SpecWindow ==
    StartWindow /\ [][NextCore]_vars

\* the swarm coordinator, its operations called while others are suspended
NextSwarm ==
    \/ SwarmInitialize /\ UNCHANGED exceptSwarm
    \/ SpawnCall /\ UNCHANGED exceptSwarm
    \/ \E ids \in MergeInputs : MergeCall(ids) /\ UNCHANGED exceptSwarm
    \/ \E t \in TaskInputs : DistributeCall(t) /\ UNCHANGED exceptSwarm
    \/ \E c \in 1..MaxCalls : AgentInitialized(c) /\ UNCHANGED exceptSwarm
    \/ \E c \in 1..MaxCalls : InitializeContinue(c) /\ UNCHANGED exceptSwarm
    \/ \E c \in 1..MaxCalls : MergeContinue(c) /\ UNCHANGED exceptSwarm
    \/ \E c \in 1..MaxCalls : DistributeContinue(c) /\ UNCHANGED exceptSwarm
    \/ SwarmShutdownBegin /\ UNCHANGED exceptSwarm
    \/ SwarmShutdownEnd /\ UNCHANGED exceptSwarm

StartSwarm ==
    LoopIdle /\ CoreIdle /\ SwarmInit /\ VoteIdle /\ TeamIdle /\ GoalIdle /\ SchedIdle /\ AssignIdle /\ RegIdle /\ DepthIdle /\ DataIdle

SpecSwarm ==
    StartSwarm /\ [][NextSwarm]_vars

\* the swarm coordinator, its caller awaiting every call before the next
NextSwarmSeq ==
    \/ SwarmInitialize /\ UNCHANGED exceptSwarm
    \/ NoCallInFlight /\ SpawnCall /\ UNCHANGED exceptSwarm
    \/ \E ids \in MergeInputs :
          NoCallInFlight /\ MergeCall(ids) /\ UNCHANGED exceptSwarm
    \/ \E t \in TaskInputs :
          NoCallInFlight /\ DistributeCall(t) /\ UNCHANGED exceptSwarm
    \/ \E c \in 1..MaxCalls : AgentInitialized(c) /\ UNCHANGED exceptSwarm
    \/ \E c \in 1..MaxCalls : InitializeContinue(c) /\ UNCHANGED exceptSwarm
    \/ \E c \in 1..MaxCalls : MergeContinue(c) /\ UNCHANGED exceptSwarm
    \/ \E c \in 1..MaxCalls : DistributeContinue(c) /\ UNCHANGED exceptSwarm
    \/ NoCallInFlight /\ SwarmShutdownBegin /\ UNCHANGED exceptSwarm
    \/ SwarmShutdownEnd /\ UNCHANGED exceptSwarm

SpecSwarmSeq ==
    StartSwarm /\ [][NextSwarmSeq]_vars

NextAssign ==
    \/ SwarmInitialize /\ UNCHANGED assignVars /\ UNCHANGED exceptAssign
    \/ NoCallInFlight /\ SpawnCall /\ UNCHANGED assignVars /\ UNCHANGED exceptAssign
    \/ \E ids \in OldestAndNewest :
          NoCallInFlight /\ MergeCall(ids) /\ UNCHANGED assignVars /\ UNCHANGED exceptAssign
    \/ \E t \in TaskInputs \cap AssignTasks :
          NoCallInFlight /\ DistributeCall(t) /\ UNCHANGED assignVars /\ UNCHANGED exceptAssign
    \/ \E a \in Range(agents), t \in AssignTasks, progress \in ProgressInputs :
          NoCallInFlight /\ ReportTaskProgress(a, t, progress)
             /\ UNCHANGED assignVars /\ UNCHANGED exceptAssign
    \/ \E c \in 1..MaxCalls : AgentInitialized(c) /\ UNCHANGED assignVars /\ UNCHANGED exceptAssign
    \/ \E c \in 1..MaxCalls : InitializeContinue(c) /\ UNCHANGED assignVars /\ UNCHANGED exceptAssign
    \/ \E c \in 1..MaxCalls : MergeContinue(c) /\ UNCHANGED assignVars /\ UNCHANGED exceptAssign
    \/ \E c \in 1..MaxCalls : DistributeContinue(c) /\ UNCHANGED assignVars /\ UNCHANGED exceptAssign

StartAssign ==
    LoopIdle /\ CoreIdle /\ AssignInit /\ VoteIdle /\ TeamIdle /\ GoalIdle /\ SchedIdle /\ RegIdle /\ DepthIdle /\ DataIdle

\* the task assignments of a swarm, every call awaited before the next
SpecAssign ==
    StartAssign /\ [][NextAssign]_vars

NextReport ==
    \/ SwarmInitialize /\ UNCHANGED assignVars /\ UNCHANGED exceptAssign
    \/ \E t \in TaskInputs \cap ReportTasks :
          NoCallInFlight /\ DistributeCall(t) /\ UNCHANGED assignVars /\ UNCHANGED exceptAssign
    \/ \E a \in AgentIds, t \in ReportTasks, progress \in ProgressInputs :
          NoCallInFlight /\ ReportTaskProgressCall(a, t, progress)
             /\ UNCHANGED consensusRate /\ UNCHANGED exceptAssign
    \/ \E c \in 1..MaxCalls : AgentInitialized(c) /\ UNCHANGED assignVars /\ UNCHANGED exceptAssign
    \/ \E c \in 1..MaxCalls : InitializeContinue(c) /\ UNCHANGED assignVars /\ UNCHANGED exceptAssign

StartReport ==
    LoopIdle /\ CoreIdle /\ ReportInit /\ VoteIdle /\ TeamIdle /\ GoalIdle /\ SchedIdle /\ RegIdle /\ DepthIdle /\ DataIdle

\* tasks distributed to a swarm and the progress reported on them
SpecReport ==
    StartReport /\ [][NextReport]_vars

\* the swarm coordinator with its decisions, every call awaited before the next
NextDecisions ==
    \/ SwarmInitialize /\ UNCHANGED voteVars /\ UNCHANGED exceptDecisions
    \/ NoCallInFlight /\ SpawnCall /\ UNCHANGED voteVars /\ UNCHANGED exceptDecisions
    \/ \E ids \in OldestPair :
          NoCallInFlight /\ MergeCall(ids) /\ UNCHANGED voteVars /\ UNCHANGED exceptDecisions
    \/ \E c \in 1..MaxCalls : AgentInitialized(c) /\ UNCHANGED voteVars /\ UNCHANGED exceptDecisions
    \/ \E c \in 1..MaxCalls : InitializeContinue(c) /\ UNCHANGED voteVars /\ UNCHANGED exceptDecisions
    \/ \E c \in 1..MaxCalls : MergeContinue(c) /\ UNCHANGED voteVars /\ UNCHANGED exceptDecisions
    \/ \E options \in SUBSET VoteOptions :
          NoCallInFlight /\ ProposeDecision(options) /\ UNCHANGED voteCall
             /\ UNCHANGED swarmVars /\ UNCHANGED exceptDecisions
    \/ \E a \in VoterIds, v \in VoteOptions :
          NoCallInFlight /\ SubmitVote(a, v) /\ UNCHANGED voteCall
             /\ UNCHANGED swarmVars /\ UNCHANGED exceptDecisions
    \/ NoCallInFlight /\ GetConsensus /\ UNCHANGED voteCall
          /\ UNCHANGED swarmVars /\ UNCHANGED exceptDecisions
    \/ NoCallInFlight /\ SwarmShutdownBegin /\ UNCHANGED voteVars /\ UNCHANGED exceptDecisions
    \/ SwarmShutdownEnd /\ DecisionsCleared /\ UNCHANGED voteCall /\ UNCHANGED exceptDecisions

StartDecisions ==
    LoopIdle /\ CoreIdle /\ SwarmInit /\ VoteInit /\ TeamIdle /\ GoalIdle /\ SchedIdle /\ AssignIdle /\ RegIdle /\ DepthIdle /\ DataIdle

SpecDecisions ==
    StartDecisions /\ [][NextDecisions]_vars

exceptBallot ==
    <<loopVars, coreVars, teamVars, goalVars, schedVars, assignVars, regVars, depthVars, dataVars>>

NextBallot ==
    \/ SwarmInitialize /\ UNCHANGED voteVars /\ UNCHANGED exceptBallot
    \/ \E c \in 1..MaxCalls : AgentInitialized(c) /\ UNCHANGED voteVars /\ UNCHANGED exceptBallot
    \/ \E c \in 1..MaxCalls : InitializeContinue(c) /\ UNCHANGED voteVars /\ UNCHANGED exceptBallot
    \/ \E options \in SUBSET VoteOptions :
          NoCallInFlight /\ ProposeDecision(options) /\ UNCHANGED voteCall
             /\ UNCHANGED swarmVars /\ UNCHANGED exceptBallot
    \/ \E a \in VoterIds, v \in VoteOptions :
          NoCallInFlight /\ SubmitVoteCall(a, v)
             /\ UNCHANGED swarmVars /\ UNCHANGED exceptBallot
    \/ NoCallInFlight /\ SwarmShutdownBegin /\ UNCHANGED voteVars /\ UNCHANGED exceptBallot
    \/ SwarmShutdownEnd /\ DecisionsCleared /\ UNCHANGED voteCall /\ UNCHANGED exceptBallot

StartBallot ==
    LoopIdle /\ CoreIdle /\ SwarmInit /\ VoteInit /\ TeamIdle /\ GoalIdle /\ SchedIdle /\ AssignIdle /\ RegIdle /\ DepthIdle /\ DataIdle

\* one ballot of a swarm and the votes submitted to it
SpecBallot ==
    StartBallot /\ [][NextBallot]_vars

exceptMetrics ==
    <<loopVars, coreVars, teamVars, goalVars, schedVars, reportCall, voteCall, regVars, depthVars, dataVars>>

NextMetrics ==
    \/ SwarmInitialize /\ UNCHANGED <<voteVars, consensusRate>> /\ UNCHANGED exceptMetrics
    \/ NoCallInFlight /\ SpawnCall /\ UNCHANGED <<voteVars, consensusRate>>
          /\ UNCHANGED exceptMetrics
    \/ \E c \in 1..MaxCalls :
          AgentInitializedRated(c) /\ UNCHANGED voteVars /\ UNCHANGED exceptMetrics
    \/ \E c \in 1..MaxCalls :
          InitializeContinue(c) /\ UNCHANGED <<voteVars, consensusRate>>
             /\ UNCHANGED exceptMetrics
    \/ \E options \in SUBSET VoteOptions :
          NoCallInFlight /\ ProposeDecision(options)
             /\ UNCHANGED <<swarmVars, consensusRate>> /\ UNCHANGED exceptMetrics
    \/ \E a \in VoterIds, v \in VoteOptions :
          NoCallInFlight /\ SubmitVote(a, v)
             /\ UNCHANGED <<swarmVars, consensusRate>> /\ UNCHANGED exceptMetrics

StartMetrics ==
    LoopIdle /\ CoreIdle /\ SwarmInit /\ VoteInit /\ TeamIdle /\ GoalIdle /\ SchedIdle /\ AssignIdle /\ RegIdle /\ DepthIdle /\ DataIdle

\* the metrics object of a swarm with one ballot
SpecMetrics ==
    StartMetrics /\ [][NextMetrics]_vars

\* the team registry, every call awaited before the next
NextTeam ==
    \/ CreateTeam /\ UNCHANGED exceptTeam
    \/ \E a \in TeamAgents : AddMember(a) /\ UNCHANGED exceptTeam
    \/ \E a \in TeamAgents : RemoveMember(a) /\ UNCHANGED exceptTeam
    \/ \E p \in SUBSET TeamAgents : StartCollaboration(p) /\ UNCHANGED exceptTeam
    \/ EndCollaboration /\ UNCHANGED exceptTeam

StartTeam ==
    LoopIdle /\ CoreIdle /\ SwarmIdle /\ VoteIdle /\ TeamInit /\ GoalIdle /\ SchedIdle /\ AssignIdle /\ RegIdle /\ DepthIdle /\ DataIdle

SpecTeam ==
    StartTeam /\ [][NextTeam]_vars

NextBroadcast ==
    \/ CreateTeam /\ UNCHANGED exceptTeam
    \/ \E a \in TeamAgents : RegisterMessageHandler(a) /\ UNCHANGED exceptTeam
    \/ \E m \in {"m1", "m2"} : BroadcastMessage(m) /\ UNCHANGED exceptTeam
    \/ \E a \in TeamAgents : HandlerResolves(a) /\ UNCHANGED exceptTeam
    \/ \E a \in TeamAgents : HandlerThrows(a) /\ UNCHANGED exceptTeam
    \/ BroadcastReturns /\ UNCHANGED exceptTeam

StartBroadcast ==
    LoopIdle /\ CoreIdle /\ SwarmIdle /\ VoteIdle /\ BroadcastInit /\ GoalIdle /\ SchedIdle /\ AssignIdle /\ RegIdle /\ DepthIdle /\ DataIdle

\* one broadcastMessage call at a time over a team with active and inactive members
SpecBroadcast ==
    StartBroadcast /\ [][NextBroadcast]_vars

exceptRegistry ==
    <<loopVars, coreVars, swarmVars, voteVars, teamVars, goalVars, schedVars, assignVars, depthVars, dataVars>>

NextRegistry ==
    \/ \E t \in RegTeamIds, ms \in SUBSET RegAgents :
          RegCreateTeam(t, ms) /\ UNCHANGED exceptRegistry
    \/ \E t \in RegTeamIds, a \in RegAgents :
          RegAddMember(t, a) /\ UNCHANGED exceptRegistry
    \/ \E t \in RegTeamIds, a \in RegAgents :
          RegRemoveMember(t, a) /\ UNCHANGED exceptRegistry
    \/ \E t \in RegTeamIds, ps \in SUBSET RegAgents :
          RegStartCollaboration(t, ps) /\ UNCHANGED exceptRegistry
    \/ RegEndCollaboration /\ UNCHANGED exceptRegistry

StartRegistry ==
    LoopIdle /\ CoreIdle /\ SwarmIdle /\ VoteIdle /\ TeamIdle /\ GoalIdle /\ SchedIdle /\ AssignIdle /\ RegInit /\ DepthIdle /\ DataIdle

\* two teams and one collaboration of a coordination provider
SpecRegistry ==
    StartRegistry /\ [][NextRegistry]_vars

\* one getTeamStatus call computing the hierarchy depth of a stored team
exceptDepth ==
    <<loopVars, coreVars, swarmVars, voteVars, teamVars, goalVars, schedVars, assignVars, regVars, dataVars>>

NextDepth ==
    \/ CalculateHierarchyDepth /\ UNCHANGED exceptDepth
    \/ DepthMapNext /\ UNCHANGED exceptDepth
    \/ DepthReturn /\ UNCHANGED exceptDepth

StartDepth ==
    LoopIdle /\ CoreIdle /\ SwarmIdle /\ VoteIdle /\ TeamIdle /\ GoalIdle /\ SchedIdle /\ AssignIdle /\ RegIdle /\ DepthInit /\ DataIdle

SpecDepth ==
    StartDepth /\ [][NextDepth]_vars

\* the call is never suspended: it runs to its return
SpecDepthRuns ==
    SpecDepth /\ WF_vars(NextDepth)

\* saveEntry calls on one dataset, each resumed whenever its await settles
exceptData ==
    <<loopVars, coreVars, swarmVars, voteVars, teamVars, goalVars, schedVars, assignVars, regVars, depthVars>>

NextData ==
    \/ \E c \in SaveIds, valid \in BOOLEAN : SaveEntry(c, valid) /\ UNCHANGED exceptData
    \/ \E c \in SaveIds : SaveEntryPush(c) /\ UNCHANGED exceptData
    \/ \E c \in SaveIds : SaveEntryValidated(c) /\ UNCHANGED exceptData

StartData ==
    LoopIdle /\ CoreIdle /\ SwarmIdle /\ VoteIdle /\ TeamIdle /\ GoalIdle /\ SchedIdle /\ AssignIdle /\ RegIdle /\ DepthIdle /\ DataInit

SpecData ==
    StartData /\ [][NextData]_vars

NextGoal ==
    \/ ClockAdvance /\ UNCHANGED exceptGoal
    \/ CheckTasksStart /\ UNCHANGED exceptGoal
    \/ CheckTasksFire /\ UNCHANGED exceptGoal
    \/ CheckTasksSkip /\ UNCHANGED exceptGoal
    \/ UpdateTaskMetrics /\ UNCHANGED exceptGoal
    \/ CheckTasksEnd /\ UNCHANGED exceptGoal

StartGoal ==
    LoopIdle /\ CoreIdle /\ SwarmIdle /\ VoteIdle /\ TeamIdle /\ GoalInit /\ SchedIdle /\ AssignIdle /\ RegIdle /\ DepthIdle /\ DataIdle

\* the task loop of the agent over the tasks of a BaseGoalProvider
SpecGoal ==
    StartGoal /\ [][NextGoal]_vars

StartPriority ==
    LoopIdle /\ CoreIdle /\ SwarmIdle /\ VoteIdle /\ TeamIdle /\ PriorityInit /\ SchedIdle /\ AssignIdle /\ RegIdle /\ DepthIdle /\ DataIdle

\* the task loop over tasks of equal and of different priorities
SpecPriority ==
    StartPriority /\ [][NextGoal]_vars

NextSched ==
    \/ SchedInitialize /\ UNCHANGED exceptSched
    \/ SchedPause /\ UNCHANGED exceptSched
    \/ SchedResume /\ UNCHANGED exceptSched
    \/ SchedShutdown /\ UNCHANGED exceptSched
    \/ \E s \in TaskLoopIds : FirstCheckDone(s) /\ UNCHANGED exceptSched
    \/ \E s \in TaskLoopIds : TimerTick(s) /\ UNCHANGED exceptSched

StartSched ==
    LoopIdle /\ CoreIdle /\ SwarmIdle /\ VoteIdle /\ TeamIdle /\ GoalIdle /\ SchedInit /\ AssignIdle /\ RegIdle /\ DepthIdle /\ DataIdle

\* the scheduler timers of an agent with a goal provider
SpecSched ==
    StartSched /\ [][NextSched]_vars

\* ------------------------------------------------------------------ claims

\* no collaborator call has failed so far
NoFailure ==
    /\ errorEvents = {}
    /\ \A l \in 1..MaxLoops : loops[l].pc # "dead"

ContextHistory ==
    {i \in 1..Len(memories) : memories[i].type = "context_history"}

\* C1: after any sequence of processed messages the context window the agent
\* holds, and the window of every conversation state it persists, has at most
\* maxContextSize (100) entries.
C1_WindowBound ==
    /\ Quiet => Len(contextWindow) <= maxContextSize
    /\ Len(stored.contextWindow) <= maxContextSize

\* C2: overflow entries are handed to the memory collaborator exactly once: no
\* entry is listed in two archived records (or twice in one), and every
\* archived record lists its entries in their original order.
C2_ArchivedExactlyOnce ==
    /\ \A i \in ContextHistory, j \in ContextHistory :
          i # j => Range(memories[i].content) \cap Range(memories[j].content) = {}
    /\ \A i \in ContextHistory :
          \A a \in 1..Len(memories[i].content), b \in 1..Len(memories[i].content) :
             a < b => memories[i].content[a] < memories[i].content[b]

\* C3: messages are handed to the AI capability in the order in which they
\* were enqueued (message ids grow in enqueue order).
C3_FifoOrder ==
    \A i \in 1..Len(aiLog), j \in 1..Len(aiLog) :
       i < j => aiLog[i] < aiLog[j]

\* C4: at-least-once delivery: while the agent is running with an AI capability
\* (and an 'error' listener), every enqueued message has been handed to the AI capability or can still be:
\* it is in the queue, or a live iteration holds it ahead of its AI call.
C4_NoMessageLost ==
    (aiProvider /\ errorListener /\ lifecycle = "running") =>
       \A k \in 1..enqueued :
          \/ MessageId(k) \in Range(messageQueue)
          \/ MessageId(k) \in Range(aiLog)
          \/ \E l \in 1..MaxLoops :
                /\ loops[l].pc \in {"store", "search"}
                /\ loops[l].message = MessageId(k)

\* C5: an AI failure during one iteration is caught in the loop and emitted as
\* an 'error' event, and the loop that met it keeps running.
C5_AiFailureIsolated ==
    \A m \in aiFailed :
       /\ m \in errorEvents
       /\ \A l \in 1..MaxLoops : ~(loops[l].pc = "dead" /\ loops[l].message = m)

\* C7: the persisted turnCount grows by exactly one per processed message: a
\* state saved by pause or shutdown, with no iteration in flight and no failure
\* so far, carries the turnCount that initialize loaded plus the number of
\* messages processed since.
C7_TurnCount ==
    (aiProvider /\ NoFailure /\ lastCall.saved /\ lastCall.quiet /\ turnBase # NotLoaded) =>
       stored.turnCount = turnBase + lastCall.dequeued

\* C8: a shutdown() issued after a completed shutdown is a no-op: it saves no
\* state and calls shutdown on no collaborator.
C8_ShutdownIdempotent ==
    (lastCall.op = "shutdown" /\ lastCall.wasStopped) =>
       (~lastCall.saved /\ ~lastCall.released)

\* C6: a failing state save never makes message processing fail: a processMessage
\* call during which a saveState call was rejected still returns its response.
C6_SaveFailureSwallowed ==
    (coreLast.op = "process" /\ coreLast.saveFailed) => coreLast.result = "returned"

\* C9: from the end of initialize until shutdown the number of agents stays
\* within [minAgents, maxAgents], however spawn, merge and distribute calls
\* interleave at their await points.
C9_SwarmSizeInvariant ==
    swarmPhase = "ready" =>
        /\ swConfig.minAgents <= Len(agents)
        /\ Len(agents) <= swConfig.maxAgents

\* C10: called with no other call in flight, spawnAgent fails with
\* CapacityExceeded exactly when the swarm already holds maxAgents agents, and
\* then changes nothing; otherwise it adds exactly one agent, under a new id.
C10_SpawnCapacity ==
    swLast.op = "spawn" =>
        /\ (swLast.outcome = "CapacityExceeded") <=> (Len(swLast.before) = swConfig.maxAgents)
        /\ (swLast.outcome = "CapacityExceeded") => (swLast.after = swLast.before)
        /\ (swLast.outcome # "CapacityExceeded") =>
              /\ swLast.outcome = "ok"
              /\ swLast.id \notin Range(swLast.before)
              /\ swLast.after = Append(swLast.before, swLast.id)

\* a spawn refused at capacity, in a swarm that grew beyond its initial agents
C10_RefusedAtCapacity ==
    /\ swLast.op = "spawn"
    /\ swLast.outcome = "CapacityExceeded"
    /\ Len(swLast.before) = swConfig.maxAgents
    /\ swConfig.minAgents < swConfig.maxAgents

\* the smallest integer not below a / b
CeilDiv(a, b) ==
    (a + b - 1) \div b

C12_Confidence ==
    (decision.proposed /\ Voters(decision) # {}) =>
        LET groups == {Cardinality({a \in Voters(decision) : decision.votes[a] = o}) :
                          o \in decision.options}
            largest == CHOOSE n \in groups : \A m \in groups : m <= n
        IN /\ decision.confidence[2] > 0
           /\ decision.confidence[1] * Cardinality(Voters(decision))
                 = largest * decision.confidence[2]

\* a vote was just recorded that splits two voters over two options
C12_SplitVote ==
    /\ voteLast = [op |-> "vote", outcome |-> "ok"]
    /\ Cardinality(Voters(decision)) = 2
    /\ \E a \in VoterIds, b \in VoterIds :
          decision.votes[a] # 0 /\ decision.votes[b] # 0 /\ decision.votes[a] # decision.votes[b]
    /\ decision.confidence = <<1, 2>>

\* agents holding fewer than 3 tasks
WithRoom ==
    {a \in Range(agents) : Cardinality(taskAssignments[a]) < 3}

\* C13: distributeTask assigns the task to exactly ceil(sqrt(c)) agents, c the
\* number of agents holding fewer than 3 tasks (c = 1 when an agent was spawned
\* for the task); each assignee had room and holds the task afterwards, and no
\* other assignment set changes.  With no room at maxAgents it fails and
\* changes nothing.  ceil(sqrt(5)) = 3.
C13_FanOut ==
    /\ CeilSqrt(5) = 3
    /\ [][/\ (swarmPhase = "ready" /\ swarmPhase' = "ready"
                 /\ taskAssignments' # taskAssignments) =>
               LET changed == {a \in AgentIds : taskAssignments'[a] # taskAssignments[a]}
                   k == Cardinality(changed)
                   c == IF \E i \in 1..MaxCalls : calls[i].op = "distribute"
                        THEN 1
                        ELSE Cardinality(WithRoom)
               IN /\ k * k >= c
                  /\ (k - 1) * (k - 1) < c
                  /\ \E t \in TaskIds : \A a \in changed :
                        /\ a \in Range(agents')
                        /\ Cardinality(taskAssignments[a]) < 3
                        /\ taskAssignments'[a] = taskAssignments[a] \cup {t}
                  /\ swLast'.op = "distribute"
                  /\ swLast'.outcome = "ok"
          /\ (swarmPhase = "ready" /\ WithRoom = {} /\ Len(agents) = swConfig.maxAgents) =>
               /\ taskAssignments' = taskAssignments
               /\ agents' = agents
               /\ \A i \in 1..MaxCalls : calls'[i].op = "distribute" => calls[i].op = "distribute"
          /\ (swLast' # swLast /\ swLast'.outcome = "NoCapacity") =>
               /\ WithRoom = {}
               /\ Len(agents) = swConfig.maxAgents
               /\ UNCHANGED <<agents, taskAssignments>>
       ]_vars

\* a task was just distributed over three agents with room: two of them hold it
C13_TwoOfThree ==
    /\ swLast.op = "distribute"
    /\ swLast.outcome = "ok"
    /\ Len(agents) = 3
    /\ \E t \in TaskIds :
          /\ Cardinality({a \in Range(agents) : t \in taskAssignments[a]}) = 2
          /\ \A a \in Range(agents) : taskAssignments[a] \subseteq {t}

\* the draft breaks one of the rules for a team: no member, a leader that is no
\* member, or a manager or a report of the reporting chain that is no member
DraftInvalid ==
    \/ \A a \in TeamAgents : draft.members[a] = "none"
    \/ /\ draft.hierarchy
       /\ \/ draft.members[draft.leaderId] = "none"
          \/ \E m \in draft.managers :
                \/ draft.members[m] = "none"
                \/ \E r \in draft.reports[m] : draft.members[r] = "none"

\* C14: createTeam fails with ValidationError and leaves the team registry
\* unchanged when the member list is empty, or a hierarchy is present whose
\* leader, or one of whose managers or reports, is not a member; otherwise the
\* team is stored.
C14_ValidateBeforeCommit ==
    /\ CreateTeamOutcome(draft) = (IF DraftInvalid THEN "ValidationError" ELSE "ok")
    /\ DraftInvalid => team = NoTeam
    /\ teamLast.op = "createTeam" =>
          /\ teamLast.outcome = CreateTeamOutcome(draft)
          /\ teamLast.outcome = "ok" => team = [draft EXCEPT !.stored = TRUE]

\* createTeam has refused a team whose only fault is a report that is no member
C14_ReportNotMember ==
    /\ teamLast = [op |-> "createTeam", outcome |-> "ValidationError"]
    /\ team = NoTeam
    /\ draft.hierarchy
    /\ draft.members[draft.leaderId] # "none"
    /\ \A m \in draft.managers : draft.members[m] # "none"
    /\ \E m \in draft.managers : \E r \in draft.reports[m] : draft.members[r] = "none"

\* C15: for every stored team that has a hierarchy, the leader and every agent
\* id of the reporting chain, manager or report, is a current member of the
\* team.
C15_HierarchyMembers ==
    (team.stored /\ team.hierarchy) =>
        /\ IsMember(team, team.leaderId)
        /\ \A m \in team.managers :
              /\ IsMember(team, m)
              /\ \A r \in team.reports[m] : IsMember(team, r)

\* C16: removeMember fails with InvariantViolation when the target is the
\* leader or a manager with a non-empty reports list; a failed removal changes
\* neither the member list nor any collaboration; the leader of a stored team
\* is never removed.
C16_RemovalRefused ==
    /\ [](team.stored /\ team.hierarchy =>
             /\ \A a \in TeamAgents :
                   (a = team.leaderId \/ (a \in team.managers /\ team.reports[a] # {}))
                       => RemoveMemberOutcome(a) = "InvariantViolation"
             /\ IsMember(team, team.leaderId))
    /\ [][(teamLast'.op = "removeMember" /\ teamLast'.outcome # "ok")
             => (team' = team /\ collab' = collab)]_vars

\* a removal was refused while the leader takes part in an active collaboration
C16_RefusedInCollaboration ==
    /\ teamLast = [op |-> "removeMember", outcome |-> "InvariantViolation"]
    /\ team.stored
    /\ team.hierarchy
    /\ collab.status = "active"
    /\ team.leaderId \in collab.participants
    /\ \E m \in team.managers \ {team.leaderId} : team.reports[m] # {}

\* the team of leader L, manager M reporting to L and report R reporting to M
TeamLMR ==
    WithHierarchy(WithMembers({"L", "M", "R"}), "L", {<<"L", "M">>, <<"M", "R">>})

\* C17: in the team of L, M and R, removeMember(R) succeeds; removeMember(M)
\* fails while R is a member and succeeds once R has been removed.
C17_ManagerAfterReport ==
    (draft = TeamLMR /\ team.stored /\ IsMember(team, "M")) =>
        /\ IsMember(team, "R") => RemoveMemberOutcome("R") = "ok"
        /\ IsMember(team, "R") => RemoveMemberOutcome("M") = "InvariantViolation"
        /\ ~IsMember(team, "R") => RemoveMemberOutcome("M") = "ok"

\* a task is eligible at a time: it has no schedule, or its day filter is absent
\* or contains the day and one of its ranges has start <= hour < end
EligibleAt(task, day, hour) ==
    \/ ~task.schedule.present
    \/ /\ (~task.schedule.hasDays \/ day \in task.schedule.daysOfWeek)
       /\ \E k \in DOMAIN task.schedule.timeRanges :
             /\ task.schedule.timeRanges[k].start <= hour
             /\ hour < task.schedule.timeRanges[k].end

\* a pending task scheduled only for Monday, 09 to 17
MondayTask ==
    [status |-> "pending", priority |-> 1, weight |-> Weight(2), executionCount |-> 0,
     schedule |-> [present |-> TRUE, hasDays |-> TRUE, daysOfWeek |-> {1},
                   timeRanges |-> <<[start |-> 9, end |-> 17, multiplier |-> 2]>>]]

\* C18: getNextTasks returns a task only if it is pending and eligible at the
\* current time, and returns every pending eligible task when the count limit
\* allows; the run of checkTasks works on such a list.  The Monday 09-17 task
\* is excluded on Tuesday 10:00 and included on Monday 10:00.
C18_ScheduleEligibility ==
    LET due(day, hour) == {t \in GoalTaskIds : /\ goalTasks[t].status = "pending"
                                               /\ EligibleAt(goalTasks[t], day, hour)}
        listed(r) == {r[i] : i \in DOMAIN r}
    IN /\ ~IsNextTask(MondayTask, 2, 10)
       /\ IsNextTask(MondayTask, 1, 10)
       /\ \A count \in 0..Len(GoalTaskOrder) :
             LET r == NextTasks(count, clock.day, clock.hour)
             IN /\ listed(r) \subseteq due(clock.day, clock.hour)
                /\ Cardinality(listed(r)) = Len(r)
                /\ Len(r) = (IF count < Cardinality(due(clock.day, clock.hour))
                             THEN count ELSE Cardinality(due(clock.day, clock.hour)))
       /\ tick.phase # "idle" => listed(tick.list) = due(tick.now.day, tick.now.hour)

\* a run of checkTasks got only the second task: the first is pending and has a
\* range for the hour, but its day filter names another day
C18_WrongDay ==
    /\ tick.phase = "check"
    /\ tick.list = <<"t2">>
    /\ goalTasks["t1"].status = "pending"
    /\ goalTasks["t1"].schedule.hasDays
    /\ tick.now.day \notin goalTasks["t1"].schedule.daysOfWeek
    /\ \E k \in DOMAIN goalTasks["t1"].schedule.timeRanges :
          /\ goalTasks["t1"].schedule.timeRanges[k].start <= tick.now.hour
          /\ tick.now.hour < goalTasks["t1"].schedule.timeRanges[k].end

\* the step of checkTasks that fires a task
Fires ==
    tick.phase = "check" /\ tick'.phase = "metrics"

\* C19: when a task is fired, the weight of the message pushed is the weight
\* the task had before the run times the multiplier of one range matching the
\* current hour (the weight itself without a schedule); a task without a
\* weight stays without one; no other step changes a weight.
C19_WeightMultiplier ==
    [][/\ Fires =>
            LET t == tick.list[tick.i]
                ranges == goalTasks[t].schedule.timeRanges
                matching == {k \in DOMAIN ranges :
                                ranges[k].start <= clock.hour /\ clock.hour < ranges[k].end}
            IN /\ taskFired'.taskId = t
               /\ taskFired'.weight = goalTasks'[t].weight
               /\ ~tick.before[t].defined => ~taskFired'.weight.defined
               /\ (tick.before[t].defined /\ ~goalTasks[t].schedule.present)
                     => taskFired'.weight = tick.before[t]
               /\ (tick.before[t].defined /\ goalTasks[t].schedule.present)
                     => \E k \in matching :
                           taskFired'.weight =
                               Weight(tick.before[t].value * ranges[k].multiplier)
       /\ \A t \in GoalTaskIds :
             goalTasks'[t].weight # goalTasks[t].weight => (Fires /\ t = tick.list[tick.i])
      ]_vars

\* the first task was fired at an hour that two of its ranges match: its weight
\* 2 was multiplied by the first multiplier only
C19_TwoRangesMatch ==
    /\ tick.phase = "metrics"
    /\ tick.list[tick.i] = "t1"
    /\ Len(goalTasks["t1"].schedule.timeRanges) = 2
    /\ \A k \in 1..2 : /\ goalTasks["t1"].schedule.timeRanges[k].start <= clock.hour
                       /\ clock.hour < goalTasks["t1"].schedule.timeRanges[k].end
    /\ tick.before["t1"] = Weight(2)
    /\ taskFired = [taskId |-> "t1", weight |-> Weight(4)]

\* C20: broadcastMessage calls the handler of every active member that has one
\* exactly once with the message and no other handler; handlers that throw do
\* not change who was called, and the call never fails for a stored team.
C20_BroadcastFanOut ==
    /\ [][(broadcast'.status = "running" /\ broadcast.status # "running") =>
             \A a \in TeamAgents :
                broadcast'.invoked[a] =
                    (IF team.members[a] = "active" /\ a \in handlers
                     THEN <<broadcast'.message>> ELSE <<>>)]_vars
    /\ [][broadcast.status = "running" =>
             /\ broadcast'.invoked = broadcast.invoked
             /\ broadcast'.status \in {"running", "returned"}]_vars
    /\ [](broadcast.status = "returned" =>
             /\ broadcast.pending = {}
             /\ teamLast = [op |-> "broadcastMessage", outcome |-> "ok"] \/ teamLast.op # "broadcastMessage")
    /\ [](teamLast.op = "broadcastMessage" /\ team.stored => teamLast.outcome \in {"pending", "ok"})

\* a broadcast has returned although a handler threw; another member's handler
\* was called, and an inactive member with a handler was left out
C20_OneHandlerThrew ==
    /\ broadcast.status = "returned"
    /\ teamLast = [op |-> "broadcastMessage", outcome |-> "ok"]
    /\ broadcast.threw # {}
    /\ \E a \in TeamAgents \ broadcast.threw : broadcast.invoked[a] = <<broadcast.message>>
    /\ \E a \in handlers : team.members[a] = "inactive" /\ broadcast.invoked[a] = <<>>

\* C21: a mergeAgents call with at least 2 ids fails only with
\* InvariantViolation, and then changes nothing; in every other state,
\* a swarm at maxAgents included, it succeeds, adds exactly one new agent and
\* leaves none of the merged ids in the swarm.
C21_MergeSucceeds ==
    (swLast.op = "merge" /\ swLast.outcome # "noop") =>
        /\ swLast.outcome \in {"InvariantViolation", "ok"}
        /\ swLast.outcome = "InvariantViolation" => swLast.after = swLast.before
        /\ swLast.outcome = "ok" =>
              /\ swLast.id \notin Range(swLast.before)
              /\ swLast.id \in Range(swLast.after)
              /\ Range(swLast.after) \ {swLast.id} \subseteq Range(swLast.before)

\* C22: a successful removeMember leaves the agent out of the member list and
\* out of every active collaboration; a collaboration emptied by the eviction
\* is completed with the default summary; nothing else changes.
C22_Eviction ==
    [][(teamLast'.op = "removeMember" /\ teamLast'.outcome = "ok") =>
          \E a \in TeamAgents :
             /\ ~IsMember(team', a)
             /\ MemberIds(team') = MemberIds(team) \ {a}
             /\ collab'.status = "active" => a \notin collab'.participants
             /\ IF collab.status = "active" /\ a \in collab.participants
                THEN /\ collab'.participants = collab.participants \ {a}
                     /\ IF collab'.participants = {}
                        THEN /\ collab'.status = "completed"
                             /\ collab'.summary = "No active participants"
                        ELSE /\ collab'.status = "active"
                             /\ collab'.summary = collab.summary
                ELSE collab' = collab]_vars

\* the last participant of a collaboration was removed from the team: the
\* collaboration is completed with the default summary
C22_LastParticipantRemoved ==
    /\ teamLast = [op |-> "removeMember", outcome |-> "ok"]
    /\ collab.status = "completed"
    /\ collab.participants = {}
    /\ collab.summary = "No active participants"
    /\ \E a \in TeamAgents : draft.members[a] # "none" /\ ~IsMember(team, a)

\* C23: an agent whose AI collaborator or state collaborator is not configured
\* stays idle: initialize fails, the agent is not running and no message loop
\* has been started.
C23_InitializeNeedsCollaborators ==
    (~aiProvider \/ ~stateProvider) =>
        /\ lifecycle = "idle"
        /\ ~isRunning
        /\ \A l \in 1..MaxLoops : loops[l] = NoLoop

\* C25: at most one message loop is alive and at most one message is between
\* its dequeue and the end of its processing, however initialize, pause and
\* resume interleave with the loop.
C25_NoOverlap ==
    /\ Cardinality({l \in 1..MaxLoops : loops[l].pc \notin {"none", "dead"}}) <= 1
    /\ Cardinality({l \in 1..MaxLoops : loops[l].pc \in {"store", "search", "ai", "sig"}}) <= 1

\* C24: once shutdown has been called, no interval timer started by
\* initialize or by a resume is left set, and no timer tick runs afterwards.
C24_TimersCancelled ==
    schedLifecycle = "stopped" =>
        /\ \A s \in TaskLoopIds : taskLoops[s].pc # "timer"
        /\ ~lastTick.stopped

\* C27: a failure during a run of checkTasks, the first run of a scheduler
\* start included, is delivered as an 'error' event and leaves the scheduler
\* going: the interval timer of that start is set.
C27_TickErrorIsolated ==
    \A s \in TaskLoopIds :
       taskLoops[s].failed =>
          /\ s \in schedErrors
          /\ taskLoops[s].pc \in {"timer", "cleared"}

\* C30: a submitVote call on an unknown topic or with a vote that is not one of
\* the ballot's options fails and leaves votes and confidence unchanged;
\* any other call records the vote under the agent id, so that an agent that
\* had voted before still counts once and the number of votes cast stays.
C30_SubmitVote ==
    [][(voteLast'.op = "vote" /\ <<voteLast, voteCall>>' # <<voteLast, voteCall>>) =>
          LET a == voteCall'.agent
              v == voteCall'.vote
          IN /\ ~decision.proposed =>
                   voteLast'.outcome = "NotFound" /\ decision' = decision
             /\ (decision.proposed /\ v \notin decision.options) =>
                   voteLast'.outcome = "InvalidVote" /\ decision' = decision
             /\ (decision.proposed /\ v \in decision.options) =>
                   /\ voteLast'.outcome = "ok"
                   /\ decision'.votes = [decision.votes EXCEPT ![a] = v]
                   /\ Voters(decision') = Voters(decision) \cup {a}
                   /\ a \in Voters(decision) =>
                         Cardinality(Voters(decision')) = Cardinality(Voters(decision))
                   /\ decision'.confidence[2] = Cardinality(Voters(decision'))]_vars

\* an agent that had voted for one option votes for the other: one vote is counted
C30_VoteReplaced ==
    /\ voteLast = [op |-> "vote", outcome |-> "ok"]
    /\ voteCall.prior # 0
    /\ voteCall.prior # voteCall.vote
    /\ decision.votes[voteCall.agent] = voteCall.vote
    /\ Cardinality(Voters(decision)) = 1
    /\ decision.confidence = <<1, 1>>

C29_ReportFrame ==
    [][(swLast'.op = "report" /\ <<swLast, reportCall>>' # <<swLast, reportCall>>) =>
          LET a == reportCall'.agent
              t == reportCall'.task
              held == t \in taskAssignments[a]
          IN /\ ~held =>
                   /\ swLast'.outcome = "NotFound"
                   /\ taskAssignments' = taskAssignments
                   /\ metrics' = metrics
             /\ (held /\ reportCall'.progress >= 100) =>
                   /\ swLast'.outcome = "ok"
                   /\ taskAssignments' = [taskAssignments EXCEPT ![a] = @ \ {t}]
             /\ (held /\ reportCall'.progress < 100) =>
                   /\ swLast'.outcome = "ok"
                   /\ taskAssignments' = taskAssignments
             /\ agents' = agents]_vars

\* an agent finished a task that another agent of the swarm still holds
C29_OtherAssigneeKeeps ==
    /\ swLast.op = "report"
    /\ swLast.outcome = "ok"
    /\ reportCall.progress >= 100
    /\ reportCall.task \notin taskAssignments[reportCall.agent]
    /\ \E b \in Range(agents) \ {reportCall.agent} : reportCall.task \in taskAssignments[b]

\* the position of a task in the tasks Map
InsertionIndex(t) ==
    CHOOSE i \in 1..Len(GoalTaskOrder) : GoalTaskOrder[i] = t

\* the list names no task twice, is in non-increasing priority order and has
\* tasks of equal priority in their insertion order
InPriorityOrder(list) ==
    \A i \in 1..Len(list), j \in 1..Len(list) :
        i < j =>
           /\ list[i] # list[j]
           /\ goalTasks[list[i]].priority >= goalTasks[list[j]].priority
           /\ goalTasks[list[i]].priority = goalTasks[list[j]].priority =>
                 InsertionIndex(list[i]) < InsertionIndex(list[j])

\* C26: getNextTasks(K) returns at most K tasks, in non-increasing priority
\* order with ties in insertion order, and leaves out no pending eligible task
\* of strictly higher priority than a task it returns; one run of checkTasks
\* walks its list from front to back, so the task messages are pushed in that order.
C26_PriorityOrder ==
    /\ [](\A K \in 0..Len(GoalTaskOrder) :
             LET list == NextTasks(K, clock.day, clock.hour)
                 left == {t \in GoalTaskIds :
                             /\ goalTasks[t].status = "pending"
                             /\ EligibleAt(goalTasks[t], clock.day, clock.hour)
                             /\ t \notin Range(list)}
             IN /\ Len(list) <= K
                /\ InPriorityOrder(list)
                /\ \A t \in left, i \in 1..Len(list) :
                      goalTasks[t].priority <= goalTasks[list[i]].priority
                /\ left # {} => Len(list) = K)
    /\ [](tick.phase # "idle" => InPriorityOrder(tick.list))
    /\ [][/\ Fires => taskFired'.taskId = tick.list[tick.i]
          /\ (tick.phase # "idle" /\ tick'.phase # "idle") =>
                /\ tick'.list = tick.list
                /\ tick'.i >= tick.i
                /\ (tick.phase = "metrics" /\ tick' # tick) => tick'.i = tick.i + 1]_vars

\* a run of checkTasks pushed the second of two tasks of equal priority, having
\* pushed the first before: a later task of higher priority would have come first
C26_TieInInsertionOrder ==
    /\ tick.phase = "metrics"
    /\ tick.i = 2
    /\ tick.list = GoalTaskOrder
    /\ taskFired.taskId = "t2"
    /\ goalTasks["t1"].priority = goalTasks["t2"].priority
    /\ goalTasks["t1"].executionCount = 1

\* C31: whenever getSwarmMetrics can be called, the metrics object holds the
\* number of agents, the consensus rate of the decisions as they are now and
\* the utilization of the assignment sets as they are now.
C31_MetricsCurrent ==
    (swarmPhase = "ready" /\ NoCallInFlight) =>
        /\ metrics.agentCount = Len(agents)
        /\ metrics.currentTasks = SumAssigned(taskAssignments, MaxSpawn)
        /\ metrics.totalPossibleTasks = Len(agents) * 3
        /\ consensusRate = ConsensusRateOf(agents, decision)

\* C32: the participants of an active collaboration are members of the team
\* that owns it, whatever createTeam, addMember, removeMember,
\* startCollaboration and endCollaboration calls were made.
C32_ParticipantsAreMembers ==
    regCollab.status = "active" =>
        /\ regTeams[regCollab.teamId].stored
        /\ regCollab.participants \subseteq regTeams[regCollab.teamId].members

\* C38: removeMember(teamId, agentId) leaves the member lists of the other
\* teams and the collaborations owned by other teams as they were.
C38_RemoveMemberFrame ==
    [][(regLast'.op = "removeMember" /\ regVars' # regVars) =>
          /\ \A t \in RegTeamIds \ {regLast'.teamId} : regTeams'[t] = regTeams[t]
          /\ regCollab.teamId # regLast'.teamId => regCollab' = regCollab]_vars

\* C35: once shutdown has completed the agent stays stopped: no message is taken
\* from the queue or handed to the AI provider afterwards and no message loop
\* is started, whatever is called.
C35_StoppedIsTerminal ==
    [][lifecycle = "stopped" =>
          /\ lifecycle' = "stopped"
          /\ enqueued' - Len(messageQueue') = enqueued - Len(messageQueue)
          /\ Len(aiLog') = Len(aiLog)
          /\ \A l \in 1..MaxLoops :
                loops[l].pc \in {"none", "dead"} => loops'[l].pc \in {"none", "dead"}]_vars

\* C36: when getConsensus has returned the decision, the next getConsensus call
\* returns it as well, unless a call on the ballot (a proposal, a vote) came
\* in between; spawnAgent and mergeAgents calls in between change nothing.
C36_ConsensusStable ==
    [][(voteLast = [op |-> "consensus", outcome |-> "decision"]
           /\ voteLast'.op = "consensus") =>
          voteLast'.outcome = "decision"]_vars

\* C37: an agent id with a non-empty assignment set is an agent of the swarm,
\* and the assigned tasks never exceed three per agent of the swarm
\* (resourceUtilization <= 1).
C37_NoOrphanedAssignments ==
    (swarmPhase = "ready" /\ NoCallInFlight) =>
        /\ \A a \in AgentIds : taskAssignments[a] # {} => a \in Range(agents)
        /\ metrics.currentTasks <= metrics.totalPossibleTasks

\* C34: after n sequential processMessage calls that all returned and whose
\* loads and saves succeeded, on a conversation state that exists, the persisted
\* context window is the last min(2n, 100) entries of message 1, response 1, ...,
\* message n, response n, in that order
C34_WindowContents ==
    (coreStored # Null /\ coreStored.turnCount = coreBase + coreCalls) =>
        LET n == coreStored.turnCount
            all == [i \in 1..(2 * n) |->
                      IF i % 2 = 1 THEN CoreMessage((i + 1) \div 2)
                                   ELSE CoreResponse(i \div 2)]
            size == IF 2 * n < maxContextSize THEN 2 * n ELSE maxContextSize
        IN coreStored.contextWindow = SubSeq(all, 2 * n - size + 1, 2 * n)

\* the hundredth message has been processed: the window is full and starts with
\* message 51
C34_HundredthMessage ==
    /\ coreCalls > 0
    /\ coreLast.op = "process"
    /\ coreLast.result = "returned"
    /\ coreStored # Null
    /\ coreStored.turnCount = coreBase + coreCalls
    /\ coreStored.turnCount = maxContextSize
    /\ Len(coreStored.contextWindow) = maxContextSize
    /\ Head(coreStored.contextWindow) = CoreMessage(maxContextSize \div 2 + 1)
\* the depth the recursion defines: 1 + the largest depth among the reports taken
\* in list order, a node seen before contributing 0
RECURSIVE DepthOf(_, _)
RECURSIVE DepthOfReports(_, _, _)
DepthOf(a, seen) ==
    IF a \in seen THEN [depth |-> 0, seen |-> seen]
    ELSE IF depthChain[a] = <<>> THEN [depth |-> 1, seen |-> seen \cup {a}]
    ELSE LET m == DepthOfReports(depthChain[a], 1, seen \cup {a})
         IN [depth |-> 1 + m.depth, seen |-> m.seen]

DepthOfReports(reports, i, seen) ==
    IF i > Len(reports) THEN [depth |-> 0, seen |-> seen]
    ELSE LET r == DepthOf(reports[i], seen)
             rest == DepthOfReports(reports, i + 1, r.seen)
         IN [depth |-> Larger(r.depth, rest.depth), seen |-> rest.seen]

\* the members a reaches in one or more reporting steps
RECURSIVE ReachedFrom(_, _)
ReachedFrom(front, n) ==
    IF n = 0 THEN front
    ELSE ReachedFrom(front \cup UNION {Range(depthChain[b]) : b \in front}, n - 1)

Below(a) ==
    ReachedFrom(Range(depthChain[a]), Cardinality(HierAgents))

AcyclicChain ==
    \A a \in HierAgents : a \notin Below(a)

\* the number of members on the longest reporting path that starts at a
RECURSIVE LongestPath(_)
LongestPath(a) ==
    IF depthChain[a] = <<>> THEN 1
    ELSE 1 + (CHOOSE d \in 1..Cardinality(HierAgents) :
                 /\ \E r \in Range(depthChain[a]) : LongestPath(r) = d
                 /\ \A r \in Range(depthChain[a]) : LongestPath(r) <= d)

\* C33: computing the hierarchy depth terminates for every reporting chain, cyclic
\* ones included; it returns 1 for a team without hierarchy and otherwise 1 + the
\* maximum depth among the leader's reports, a revisited node contributing 0
C33_DepthTerminates ==
    /\ <>(depthPhase = "done")
    /\ [](depthPhase = "done" =>
            /\ depthStack = <<>>
            /\ depthResult = IF depthHier THEN DepthOf(HierLeader, {}).depth ELSE 1
            /\ depthResult \in 1..Cardinality(HierAgents))

\* the call returned on a chain in which every member reports to itself through
\* the others
C33_CyclicChainDone ==
    /\ depthPhase = "done"
    /\ depthHier
    /\ \A a \in HierAgents : a \in Below(a)
    /\ depthVisited = HierAgents
    /\ depthResult = Cardinality(HierAgents)

\* C39: for an acyclic reporting chain the hierarchy depth is the number of members
\* on the longest reporting path from the leader, whatever the order of the reports
C39_DepthIsLongestPath ==
    (depthPhase = "done" /\ depthHier /\ AcyclicChain) =>
        depthResult = LongestPath(HierLeader)
\* C40: under any interleaving of concurrent saveEntry calls on one dataset, an
\* entry whose validation failed is not in the entries and an entry whose
\* saveEntry succeeded is
C40_SaveEntryAtomic ==
    \A c \in SaveIds :
        /\ dataCalls[c].pc = "failed" => c \notin Range(dataEntries)
        /\ dataCalls[c].pc = "succeeded" => c \in Range(dataEntries)
====
